---------------------------- MODULE Spec2Model ----------------------------
(***************************************************************************)
(* A model of the HR Consultant MCP server (rabwill/trey-research-mcp):    *)
(*   - Origin access control and the CORS callback of the Express front    *)
(*     door (index.ts with the origin allow-list)                          *)
(*   - the MCP server factory createHRServer with its widget registry,     *)
(*     resource handlers and the call-tool switch (mcp-server.ts)          *)
(*   - the Azurite table helpers the tool handlers call (db.ts)            *)
(*   - the /mcp routes of the Express app: CORS middleware, one server and *)
(*     one transport per request, release on the close of the response     *)
(*   - the update handlers followed await by await, for requests whose     *)
(*     handlers interleave, and readWidgetHtml over asset directories      *)
(* Strings are TLA+ strings handled character by character (Len, SubSeq,   *)
(* \o), so that prefix, suffix and URL parsing are computed, not assumed.  *)
(***************************************************************************)
EXTENDS Integers, Sequences, FiniteSets, TLC

VARIABLES
    env,              \* process.env: SERVER_BASE_URL, ADDITIONAL_ALLOWED_ORIGINS
    ALLOWED_ORIGINS,  \* const ALLOWED_ORIGINS = buildAllowedOrigins()
    cors,             \* outcome of the corsOptions.origin callback (SpecOrigin)
    assets,           \* the files of ASSETS_DIR (the built widget markup)
    widgets,          \* DASHBOARD_WIDGET / PROFILE_WIDGET / BULK_EDITOR_WIDGET
    db,               \* the three Azurite tables
    req,              \* the JSON-RPC request being handled
    resp,             \* what its handler produced
    dbOps,            \* the table operations the handler issued, in order
    exchanges,        \* the HTTP exchanges on /mcp: request, position, response
    servers,          \* every Server made by createHRServer(), by identity
    transports,       \* every StreamableHTTPServerTransport, by identity
    fsReads,          \* fs.readFileSync calls of readWidgetHtml, per component
    calls             \* tool handlers in flight, each at one of its awaits

vars == <<env, ALLOWED_ORIGINS, cors, assets, widgets, db, req, resp, dbOps,
          exchanges, servers, transports, fsReads, calls>>

\* the state of the HTTP front door and of the instances it made, and of the
\* handlers followed await by await
lifecycle == <<exchanges, servers, transports, fsReads, calls>>

-----------------------------------------------------------------------------
(* String helpers: the JavaScript String methods the code uses.            *)

CharAt(s, i) == SubSeq(s, i, i)

\* String.prototype.startsWith
StartsWith(s, p) == Len(s) >= Len(p) /\ SubSeq(s, 1, Len(p)) = p

\* String.prototype.endsWith
EndsWith(s, p) == Len(s) >= Len(p) /\ SubSeq(s, Len(s) - Len(p) + 1, Len(s)) = p

\* String.prototype.slice(n) for 0 <= n
Slice(s, n) == SubSeq(s, n + 1, Len(s))

\* 1-based index of the first occurrence of character c in s at or after i, 0 if none
RECURSIVE IndexOfCharFrom(_, _, _)
IndexOfCharFrom(s, c, i) ==
    IF i > Len(s) THEN 0
    ELSE IF CharAt(s, i) = c THEN i
    ELSE IndexOfCharFrom(s, c, i + 1)

\* 1-based index of the first occurrence of character c in s, 0 if none
IndexOfChar(s, c) == IndexOfCharFrom(s, c, 1)

\* 1-based index of the last occurrence of character c in s at or before i, 0 if none
RECURSIVE LastIndexOfCharFrom(_, _, _)
LastIndexOfCharFrom(s, c, i) ==
    IF i < 1 THEN 0
    ELSE IF CharAt(s, i) = c THEN i
    ELSE LastIndexOfCharFrom(s, c, i - 1)

\* 1-based index of the last occurrence of character c in s, 0 if none
LastIndexOfChar(s, c) == LastIndexOfCharFrom(s, c, Len(s))

\* 1-based index of the first character of s, at or after i, that is one of the
\* characters of cs; 0 if none
RECURSIVE IndexOfAnyFrom(_, _, _)
IndexOfAnyFrom(s, cs, i) ==
    IF i > Len(s) THEN 0
    ELSE IF IndexOfChar(cs, CharAt(s, i)) # 0 THEN i
    ELSE IndexOfAnyFrom(s, cs, i + 1)

IndexOfAny(s, cs) == IndexOfAnyFrom(s, cs, 1)

UpperChars == "ABCDEFGHIJKLMNOPQRSTUVWXYZ"
LowerChars == "abcdefghijklmnopqrstuvwxyz"
DigitChars == "0123456789"

CharsOf(s) == {CharAt(s, i) : i \in 1..Len(s)}
UpperSet == CharsOf(UpperChars)
AlphaSet == CharsOf(UpperChars) \cup CharsOf(LowerChars)
DigitSet == CharsOf(DigitChars)

IsAlpha(c) == c \in AlphaSet
IsDigit(c) == c \in DigitSet

ToLowerChar(c) ==
    IF c \in UpperSet THEN CharAt(LowerChars, IndexOfChar(UpperChars, c)) ELSE c

RECURSIVE ToLower(_)
ToLower(s) == IF s = "" THEN "" ELSE ToLowerChar(CharAt(s, 1)) \o ToLower(Slice(s, 1))

\* String.prototype.trim, for the space character
RECURSIVE TrimStart(_)
TrimStart(s) == IF StartsWith(s, " ") THEN TrimStart(Slice(s, 1)) ELSE s

RECURSIVE TrimEnd(_)
TrimEnd(s) == IF EndsWith(s, " ") THEN TrimEnd(SubSeq(s, 1, Len(s) - 1)) ELSE s

Trim(s) == TrimEnd(TrimStart(s))

\* String.prototype.split(",")
RECURSIVE SplitComma(_)
SplitComma(s) ==
    LET i == IndexOfChar(s, ",") IN
    IF i = 0 THEN <<s>>
    ELSE <<SubSeq(s, 1, i - 1)>> \o SplitComma(Slice(s, i))

\* the value of a string of decimal digits
RECURSIVE DecimalValue(_)
DecimalValue(s) ==
    IF s = "" THEN 0
    ELSE 10 * DecimalValue(SubSeq(s, 1, Len(s) - 1))
            + (IndexOfChar(DigitChars, CharAt(s, Len(s))) - 1)

AllDigits(s) == \A i \in 1..Len(s) : IsDigit(CharAt(s, i))

-----------------------------------------------------------------------------
(* new URL(input) without a base, as far as the code reads it: whether it  *)
(* throws, and the hostname and origin getters.  Inputs are strings over   *)
(* letters, digits, space and . - + : / ? # @ , whose host is a domain or  *)
(* a canonical dotted-quad address (no IPv6 literal, no file: URL, no      *)
(* percent-escape, no backslash).                                          *)

DefaultPort(scheme) ==
    CASE scheme = "http"  -> 80
      [] scheme = "ws"    -> 80
      [] scheme = "https" -> 443
      [] scheme = "wss"   -> 443
      [] scheme = "ftp"   -> 21
      [] OTHER            -> -1

IsSpecialScheme(scheme) == DefaultPort(scheme) # -1

ValidScheme(s) ==
    /\ s # ""
    /\ IsAlpha(CharAt(s, 1))
    /\ \A i \in 2..Len(s) :
          \/ IsAlpha(CharAt(s, i))
          \/ IsDigit(CharAt(s, i))
          \/ CharAt(s, i) \in {"+", "-", "."}

RECURSIVE StripSlashes(_)
StripSlashes(s) == IF StartsWith(s, "/") THEN StripSlashes(Slice(s, 1)) ELSE s

ForbiddenHostChars == CharsOf(" #/:<>?@[]^|")

HasForbiddenHostChar(h) == \E i \in 1..Len(h) : CharAt(h, i) \in ForbiddenHostChars

URLFailure == [ok |-> FALSE, scheme |-> "", hostname |-> "", port |-> "", origin |-> ""]

\* authority: "userinfo@host:port" cut at the first / ? #
ParseAuthority(scheme, afterSlashes) ==
    LET cut       == IndexOfAny(afterSlashes, "/?#")
        authority == IF cut = 0 THEN afterSlashes ELSE SubSeq(afterSlashes, 1, cut - 1)
        at        == LastIndexOfChar(authority, "@")
        hostport  == Slice(authority, at)
        colon     == IndexOfChar(hostport, ":")
        rawHost   == IF colon = 0 THEN hostport ELSE SubSeq(hostport, 1, colon - 1)
        portStr   == IF colon = 0 THEN "" ELSE Slice(hostport, colon)
        special   == IsSpecialScheme(scheme)
        host      == IF special THEN ToLower(rawHost) ELSE rawHost
        portNum   == DecimalValue(portStr)
        port      == IF portStr = "" \/ portNum = DefaultPort(scheme)
                     THEN "" ELSE ToString(portNum)
    IN  IF \/ (rawHost = "" /\ (special \/ colon # 0 \/ at # 0))
           \/ HasForbiddenHostChar(rawHost)
           \/ ~AllDigits(portStr)
           \/ portNum > 65535
        THEN URLFailure
        ELSE [ok       |-> TRUE,
              scheme   |-> scheme,
              hostname |-> host,
              port     |-> port,
              origin   |-> IF special
                           THEN scheme \o "://" \o host
                                    \o (IF port = "" THEN "" ELSE ":" \o port)
                           ELSE "null"]

ParseURL(input) ==
    LET trimmed == Trim(input)
        colon   == IndexOfChar(trimmed, ":")
        scheme  == ToLower(SubSeq(trimmed, 1, colon - 1))
        rest    == Slice(trimmed, colon)
    IN  IF colon = 0 \/ ~ValidScheme(scheme) THEN URLFailure
        ELSE IF IsSpecialScheme(scheme) THEN ParseAuthority(scheme, StripSlashes(rest))
        ELSE IF StartsWith(rest, "//") THEN ParseAuthority(scheme, Slice(rest, 2))
        ELSE [ok |-> TRUE, scheme |-> scheme, hostname |-> "", port |-> "",
              origin |-> "null"]

-----------------------------------------------------------------------------
(* Origin allow-list (index.ts).                                           *)

STATIC_ALLOWED_ORIGINS ==
    << "http://localhost", "http://127.0.0.1", "https://localhost", "https://127.0.0.1",
       "vscode-webview://",
       ".chatgpt.com", ".openai.com",
       ".widgetcopilot.net", ".microsoft.com", ".cloud.microsoft", ".office.com",
       ".office365.com", ".sharepoint.com", ".live.com", ".microsoft365.com",
       ".teams.microsoft.com",
       ".devtunnels.ms", ".ngrok-free.app", ".ngrok.io", ".loca.lt",
       ".trycloudflare.com" >>

\* the for-loop over extra.split(","): trim, push when non-empty
RECURSIVE PushTrimmed(_, _)
PushTrimmed(origins, parts) ==
    IF parts = <<>> THEN origins
    ELSE LET trimmed == Trim(Head(parts)) IN
         PushTrimmed(IF trimmed # "" THEN Append(origins, trimmed) ELSE origins,
                     Tail(parts))

\* buildAllowedOrigins(), reading process.env (an unset variable is "")
buildAllowedOrigins(e) ==
    LET serverBase == e.SERVER_BASE_URL
        u          == ParseURL(serverBase)
        withBase   == IF serverBase # "" /\ u.ok
                      THEN STATIC_ALLOWED_ORIGINS \o <<u.origin, "." \o u.hostname>>
                      ELSE STATIC_ALLOWED_ORIGINS
        extra      == e.ADDITIONAL_ALLOWED_ORIGINS
    IN  IF extra # "" THEN PushTrimmed(withBase, SplitComma(extra)) ELSE withBase

\* A request's Origin header: undefined, or a string.
NoOrigin == [present |-> FALSE, value |-> ""]
OriginOf(s) == [present |-> TRUE, value |-> s]

\* a variant with a fault: only `!origin`, the literal "null" goes on to the loop
MissingOnly(origin) == ~origin.present \/ origin.value = ""

\* `!origin || origin === "null"`
MissingOrNull(origin) == ~origin.present \/ origin.value = "" \/ origin.value = "null"

\* a variant with a fault: the dot-wildcard test compares with the suffix without
\* its leading dot, `hostname.endsWith(entry.slice(1))`
entryAllowsBareSuffix(entry, o) ==
    IF EndsWith(entry, "://") /\ StartsWith(o, entry) THEN TRUE
    ELSE IF (entry = "http://localhost" \/ entry = "https://localhost")
            /\ StartsWith(o, entry) THEN TRUE
    ELSE IF (entry = "http://127.0.0.1" \/ entry = "https://127.0.0.1")
            /\ StartsWith(o, entry) THEN TRUE
    ELSE IF StartsWith(entry, ".")
         THEN LET u == ParseURL(o) IN u.ok /\ EndsWith(u.hostname, Slice(entry, 1))
    ELSE o = entry

\* a variant with a fault: the scheme-prefix test compares the scheme alone,
\* without the "//" of the entry
entryAllowsSchemeOnly(entry, o) ==
    IF EndsWith(entry, "://") /\ StartsWith(o, SubSeq(entry, 1, Len(entry) - 2)) THEN TRUE
    ELSE IF (entry = "http://localhost" \/ entry = "https://localhost")
            /\ StartsWith(o, entry) THEN TRUE
    ELSE IF (entry = "http://127.0.0.1" \/ entry = "https://127.0.0.1")
            /\ StartsWith(o, entry) THEN TRUE
    ELSE IF StartsWith(entry, ".")
         THEN LET u == ParseURL(o) IN
              u.ok /\ (EndsWith(u.hostname, entry) \/ u.hostname = Slice(entry, 1))
    ELSE o = entry

\* One turn of the loop `for (const entry of ALLOWED_ORIGINS)`: TRUE when the
\* body returns true for this entry, FALSE when it goes on to the next entry.
entryAllows(entry, o) ==
    IF EndsWith(entry, "://") /\ StartsWith(o, entry) THEN TRUE
    ELSE IF (entry = "http://localhost" \/ entry = "https://localhost")
            /\ StartsWith(o, entry) THEN TRUE
    ELSE IF (entry = "http://127.0.0.1" \/ entry = "https://127.0.0.1")
            /\ StartsWith(o, entry) THEN TRUE
    ELSE IF StartsWith(entry, ".")
         THEN LET u == ParseURL(o) IN
              u.ok /\ (EndsWith(u.hostname, entry) \/ u.hostname = Slice(entry, 1))
    ELSE o = entry

\* a variant with a fault: `return false` inside the loop, after the first entry
loopOverFirstEntry(entries, o) ==
    IF entries = <<>> THEN FALSE ELSE entryAllows(Head(entries), o)

RECURSIVE loopOverEntries(_, _)
loopOverEntries(entries, o) ==
    IF entries = <<>> THEN FALSE
    ELSE IF entryAllows(Head(entries), o) THEN TRUE
    ELSE loopOverEntries(Tail(entries), o)

\* isOriginAllowed with the allow-list made explicit
isOriginAllowedIn(allowList, origin) ==
    IF MissingOrNull(origin) THEN TRUE ELSE loopOverEntries(allowList, origin.value)

\* a variant with a fault: the answer depends on what the last call answered
isOriginAllowedAfterLast(origin) ==
    IF cors.checked THEN ~cors.allowed ELSE isOriginAllowedIn(ALLOWED_ORIGINS, origin)

isOriginAllowed(origin) == isOriginAllowedIn(ALLOWED_ORIGINS, origin)

\* a variant with a fault: a blocked origin is reflected all the same
corsOriginCallbackReflecting(origin) ==
    IF isOriginAllowed(origin)
    THEN [checked |-> TRUE, origin |-> origin, allowed |-> TRUE,
          reflect |-> IF origin.present THEN origin.value ELSE "true", warned |-> FALSE]
    ELSE [checked |-> TRUE, origin |-> origin, allowed |-> FALSE,
          reflect |-> origin.value, warned |-> TRUE]

\* corsOptions.origin: callback(null, origin ?? true) or warn and callback(null, false)
corsOriginCallback(origin) ==
    IF isOriginAllowed(origin)
    THEN [checked |-> TRUE, origin |-> origin, allowed |-> TRUE,
          reflect |-> IF origin.present THEN origin.value ELSE "true", warned |-> FALSE]
    ELSE [checked |-> TRUE, origin |-> origin, allowed |-> FALSE,
          reflect |-> "false", warned |-> TRUE]

NoCors == [checked |-> FALSE, origin |-> NoOrigin, allowed |-> FALSE,
           reflect |-> "false", warned |-> FALSE]

-----------------------------------------------------------------------------
(* The inputs of the origin check: environments at startup and Origin      *)
(* headers of requests.                                                    *)

ServerBaseUrls == {"", "https://tunnel.example.org/", "tunnel.example.org"}

AdditionalAllowedOrigins ==
    {"", ".example.com", " https://exact.test , myapp:// ",
     ".example.com,,https://notexample.com", "https://exact.test, notexample.com"}

Environments ==
    [SERVER_BASE_URL : ServerBaseUrls, ADDITIONAL_ALLOWED_ORIGINS : AdditionalAllowedOrigins]

OriginSchemes == {"https://", "http://", "vscode-webview://", "myapp://", ""}

OriginHosts ==
    {"example.com", "sub.example.com", "notexample.com", "chat.chatgpt.com",
     "chatgpt.com", "localhost", "127.0.0.1", "evil.net", "tunnel.example.org",
     "exact.test", ""}

OriginSuffixes == {"", ":3000", ".evil.net", "/x"}

OriginStrings ==
    {sc \o h \o sf : <<sc, h, sf>> \in OriginSchemes \X OriginHosts \X OriginSuffixes}
        \cup {"null", ".chatgpt.com", ".example.com", "https://EXAMPLE.com",
              "https://user@example.com", "https://example.com:443",
              "https://example.com/x", "vscode-webview:/abc123",
              "xvscode-webview://abc123", "myapp://host", "myapp:host"}

OriginHeaders == {NoOrigin} \cup {OriginOf(s) : s \in OriginStrings}

-----------------------------------------------------------------------------
(* JSON values as the handlers see them (the `arguments` of a tools/call). *)

JStr(x)  == [t |-> "string",  s |-> x,  n |-> 0, b |-> FALSE, a |-> <<>>]
JNum(x)  == [t |-> "number",  s |-> "", n |-> x, b |-> FALSE, a |-> <<>>]
JBool(x) == [t |-> "boolean", s |-> "", n |-> 0, b |-> x,     a |-> <<>>]
JArr(x)  == [t |-> "array",   s |-> "", n |-> 0, b |-> FALSE, a |-> x]
JNull    == [t |-> "null",    s |-> "", n |-> 0, b |-> FALSE, a |-> <<>>]

\* An object is a function from its keys; {} is the function with no key.
EmptyObject == [k \in {} |-> JNull]

Has(obj, key) == key \in DOMAIN obj

\* the strings of an array of JSON strings
RECURSIVE StringsOf(_)
StringsOf(arr) == IF arr = <<>> THEN <<>> ELSE <<Head(arr).s>> \o StringsOf(Tail(arr))

\* Array.prototype.join
RECURSIVE Join(_, _)
Join(strs, sep) ==
    IF strs = <<>> THEN ""
    ELSE IF Len(strs) = 1 THEN Head(strs)
    ELSE Head(strs) \o sep \o Join(Tail(strs), sep)

\* JSON.stringify of a string (no character to escape)
JsonStringifyString(x) == "\"" \o x \o "\""

-----------------------------------------------------------------------------
(* Zod parsers (mcp-server.ts): z.object({...}) of z.string(), z.number(), *)
(* z.boolean(), z.array(z.string()), each possibly .optional().            *)

Field(key, type, optional) == [key |-> key, type |-> type, optional |-> optional]

dashboardParser ==
    { Field("consultantName", "string", TRUE), Field("projectName", "string", TRUE),
      Field("skill", "string", TRUE), Field("role", "string", TRUE),
      Field("billable", "boolean", TRUE) }

profileParser == { Field("consultantId", "string", FALSE) }

searchParser == { Field("skill", "string", TRUE), Field("name", "string", TRUE) }

updateParser ==
    { Field("consultantId", "string", FALSE), Field("name", "string", TRUE),
      Field("email", "string", TRUE), Field("phone", "string", TRUE),
      Field("skills", "string[]", TRUE), Field("roles", "string[]", TRUE) }

bulkUpdateParser ==
    { Field("consultantIds", "string[]", FALSE), Field("name", "string", TRUE),
      Field("email", "string", TRUE), Field("phone", "string", TRUE),
      Field("skills", "string[]", TRUE), Field("roles", "string[]", TRUE) }

projectDetailParser == { Field("projectId", "string", FALSE) }

bulkEditorParser == { Field("skill", "string", TRUE), Field("name", "string", TRUE) }

assignConsultantParser ==
    { Field("projectId", "string", FALSE), Field("consultantId", "string", FALSE),
      Field("role", "string", FALSE), Field("billable", "boolean", TRUE),
      Field("rate", "number", TRUE) }

bulkAssignParser ==
    { Field("projectId", "string", FALSE), Field("consultantIds", "string[]", FALSE),
      Field("role", "string", FALSE), Field("billable", "boolean", TRUE),
      Field("rate", "number", TRUE) }

removeAssignmentParser ==
    { Field("projectId", "string", FALSE), Field("consultantId", "string", FALSE) }

\* a variant with a fault: every field as z.any(), only presence is checked
zAcceptsPresence(parser, args) ==
    \A f \in parser : Has(args, f.key) \/ f.optional

\* whether a JSON value passes z.<type>()
TypeAccepts(type, v) ==
    CASE type = "string"   -> v.t = "string"
      [] type = "number"   -> v.t = "number"
      [] type = "boolean"  -> v.t = "boolean"
      [] type = "string[]" -> v.t = "array" /\ \A i \in DOMAIN v.a : v.a[i].t = "string"
      [] OTHER             -> FALSE

\* parser.parse(args) succeeds: every declared key is present with its type,
\* or absent and optional.  Keys the parser does not declare are not looked at.
zAccepts(parser, args) ==
    \A f \in parser :
        IF Has(args, f.key) THEN TypeAccepts(f.type, args[f.key]) ELSE f.optional

\* the parsed object: the declared keys that are present (unknown keys stripped)
zData(parser, args) ==
    [k \in (DOMAIN args) \cap {f.key : f \in parser} |-> args[k]]

-----------------------------------------------------------------------------
(* db.ts: the Consultants, Projects and Assignments tables.  A table is a  *)
(* function from the row keys it holds to entities.  A JSON-stringified    *)
(* column (skills, roles, certifications, forecast, delivered) holds the   *)
(* array it encodes.                                                       *)

NullEntity == [found |-> FALSE]

ConsultantEntity(id, name, email, phone, skills, roles) ==
    [found |-> TRUE, partitionKey |-> "consultant", rowKey |-> id, name |-> name,
     email |-> email, phone |-> phone, consultantPhotoUrl |-> "", location |-> "{}",
     skills |-> skills, certifications |-> <<>>, roles |-> roles]

ProjectEntity(id, name, clientName) ==
    [found |-> TRUE, partitionKey |-> "project", rowKey |-> id, name |-> name,
     description |-> "", clientName |-> clientName, clientContact |-> "",
     clientEmail |-> "", location |-> "{}"]

AssignmentEntity(projectId, consultantId, role, billable, rate, forecast, delivered) ==
    [found |-> TRUE, partitionKey |-> "assignment",
     rowKey |-> projectId \o "," \o consultantId,
     projectId |-> projectId, consultantId |-> consultantId, role |-> role,
     billable |-> billable, rate |-> rate, forecast |-> forecast,
     delivered |-> delivered]

\* The state of running one handler: the tables and the table operations issued.
Start(tables) == [db |-> tables, ops |-> <<>>]
Did(st, tables, ops, result) ==
    [db |-> tables, ops |-> st.ops \o ops, result |-> result]

\* listEntities, in row-key order of the keys the model uses
RECURSIVE ListTable(_, _)
ListTable(table, keys) ==
    IF keys = <<>> THEN <<>>
    ELSE (IF Head(keys) \in DOMAIN table THEN <<table[Head(keys)]>> ELSE <<>>)
            \o ListTable(table, Tail(keys))

ConsultantKeys == <<"1", "2">>
ProjectKeys    == <<"1", "2">>
AssignmentKeys == <<"1,1", "1,2", "2,1", "2,2">>

getAllConsultants(st) ==
    Did(st, st.db, <<"Consultants.listEntities">>,
        ListTable(st.db.consultants, ConsultantKeys))

getConsultantById(st, id) ==
    Did(st, st.db, <<"Consultants.getEntity">>,
        IF id \in DOMAIN st.db.consultants THEN st.db.consultants[id] ELSE NullEntity)

\* the loop over Object.entries(updates) of updateConsultant
mergeUpdates(existing, updates) ==
    [key \in DOMAIN existing |->
        IF Has(updates, key)
        THEN IF key \in {"skills", "certifications", "roles"}
             THEN StringsOf(updates[key].a)
             ELSE updates[key].s
        ELSE existing[key]]

updateConsultant(st, id, updates) ==
    LET got == getConsultantById(st, id) IN
    IF ~got.result.found THEN Did(got, got.db, <<>>, NullEntity)
    ELSE LET merged  == mergeUpdates(got.result, updates)
             written == [got.db EXCEPT !.consultants[id] = merged]
             put     == Did(got, written, <<"Consultants.updateEntity">>, merged)
         IN  getConsultantById(put, id)

getAllProjects(st) ==
    Did(st, st.db, <<"Projects.listEntities">>, ListTable(st.db.projects, ProjectKeys))

getProjectById(st, id) ==
    Did(st, st.db, <<"Projects.getEntity">>,
        IF id \in DOMAIN st.db.projects THEN st.db.projects[id] ELSE NullEntity)

getAllAssignments(st) ==
    Did(st, st.db, <<"Assignments.listEntities">>,
        ListTable(st.db.assignments, AssignmentKeys))

getAssignmentsByProject(st, projectId) ==
    LET all == getAllAssignments(st) IN
    Did(all, all.db, <<>>, SelectSeq(all.result, LAMBDA a : a.projectId = projectId))

getAssignmentsByConsultant(st, consultantId) ==
    LET all == getAllAssignments(st) IN
    Did(all, all.db, <<>>, SelectSeq(all.result, LAMBDA a : a.consultantId = consultantId))

\* createAssignment: upsertEntity(entity, "Replace") then getEntity.
\* data.projectId, data.consultantId and data.role are strings; data.billable
\* and data.rate are JSON values, or absent (undefined).
createAssignment(st, data) ==
    LET entity == AssignmentEntity(data.projectId, data.consultantId, data.role,
                      IF Has(data, "billable") THEN data.billable.b ELSE TRUE,
                      IF Has(data, "rate") THEN data.rate.n ELSE 0,
                      <<>>, <<>>)
        rowKey == entity.rowKey
        tables == [st.db EXCEPT !.assignments =
                      [k \in (DOMAIN st.db.assignments) \cup {rowKey} |->
                          IF k = rowKey THEN entity ELSE st.db.assignments[k]]]
    IN  Did(st, tables, <<"Assignments.upsertEntity", "Assignments.getEntity">>, entity)

\* deleteAssignment: deleteEntity throws for a missing row, caught as false
deleteAssignment(st, projectId, consultantId) ==
    LET rowKey == projectId \o "," \o consultantId IN
    IF rowKey \in DOMAIN st.db.assignments
    THEN Did(st, [st.db EXCEPT !.assignments =
                    [k \in (DOMAIN st.db.assignments) \ {rowKey} |-> st.db.assignments[k]]],
             <<"Assignments.deleteEntity">>, TRUE)
    ELSE Did(st, st.db, <<"Assignments.deleteEntity">>, FALSE)

\* the tables after `npx tsx src/seed.ts`
SeededTables ==
    [consultants |->
        [id \in {"1", "2"} |->
            IF id = "1"
            THEN ConsultantEntity("1", "Avery", "avery@treyresearch.com", "555-0101",
                                  <<"TypeScript", "Azure">>, <<"Developer">>)
            ELSE ConsultantEntity("2", "Sanjay", "sanjay@treyresearch.com", "555-0102",
                                  <<"Design">>, <<"Designer">>)],
     projects |->
        [id \in {"1"} |-> ProjectEntity("1", "Woodgrove Bank", "Woodgrove")],
     assignments |->
        [k \in {"1,1"} |->
            AssignmentEntity("1", "1", "Developer", TRUE, 100,
                             <<[month |-> 1, year |-> 2025, hours |-> 40]>>,
                             <<[month |-> 1, year |-> 2025, hours |-> 8]>>)]]

-----------------------------------------------------------------------------
(* Widget HTML loader and widget definitions (mcp-server.ts).              *)

PORT == 8000

MIME_TYPE == "text/html+skybridge"

\* base.replace(/\/+$/, "")
RECURSIVE StripTrailingSlashes(_)
StripTrailingSlashes(s) ==
    IF EndsWith(s, "/") THEN StripTrailingSlashes(SubSeq(s, 1, Len(s) - 1)) ELSE s

getPublicServerUrl(e) ==
    IF e.SERVER_BASE_URL # "" THEN StripTrailingSlashes(e.SERVER_BASE_URL)
    ELSE "http://localhost:" \o ToString(PORT)

\* 1-based index of the first occurrence of sub in s, 0 if none
RECURSIVE IndexOfSubFrom(_, _, _)
IndexOfSubFrom(s, sub, i) ==
    IF i + Len(sub) - 1 > Len(s) THEN 0
    ELSE IF SubSeq(s, i, i + Len(sub) - 1) = sub THEN i
    ELSE IndexOfSubFrom(s, sub, i + 1)

IndexOfSub(s, sub) == IndexOfSubFrom(s, sub, 1)

\* String.prototype.includes
Includes(s, sub) == sub = "" \/ IndexOfSub(s, sub) # 0

\* s.replace(pattern, replacement) for a string pattern: the first occurrence only
\* (the replacement holds no $ pattern)
ReplaceFirst(s, pattern, replacement) ==
    LET i == IndexOfSub(s, pattern) IN
    IF i = 0 THEN s
    ELSE SubSeq(s, 1, i - 1) \o replacement \o Slice(s, i + Len(pattern) - 1)

\* the order of Array.prototype.sort() on strings: by code unit
CodeUnitOrder ==
    " #+,-./0123456789:<>?@ABCDEFGHIJKLMNOPQRSTUVWXYZ[]^_abcdefghijklmnopqrstuvwxyz|"

RECURSIVE StrLess(_, _)
StrLess(x, y) ==
    IF y = "" THEN FALSE
    ELSE IF x = "" THEN TRUE
    ELSE LET cx == IndexOfChar(CodeUnitOrder, CharAt(x, 1))
             cy == IndexOfChar(CodeUnitOrder, CharAt(y, 1))
         IN  IF cx # cy THEN cx < cy ELSE StrLess(Slice(x, 1), Slice(y, 1))

\* a variant with a fault: candidates[0] of the sorted candidates
FirstSorted(names) == CHOOSE x \in names : \A y \in names \ {x} : StrLess(x, y)

\* candidates[candidates.length - 1] of the sorted candidates
LastSorted(names) == CHOOSE x \in names : \A y \in names \ {x} : StrLess(y, x)

\* readWidgetHtml(componentName): the markup, or a throw.
\* dir is [exists, files]: files maps each file name of ASSETS_DIR to its text.
readWidgetHtml(dir, e, componentName) ==
    IF ~dir.exists THEN [threw |-> TRUE, html |-> ""]
    ELSE LET directName == componentName \o ".html"
             candidates == {f \in DOMAIN dir.files :
                               StartsWith(f, componentName \o "-") /\ EndsWith(f, ".html")}
             found      == directName \in DOMAIN dir.files \/ candidates # {}
             html       == IF directName \in DOMAIN dir.files THEN dir.files[directName]
                           ELSE IF candidates # {} THEN dir.files[LastSorted(candidates)]
                           ELSE ""
             injection  == "<script>window.__SERVER_BASE_URL__="
                              \o JsonStringifyString(getPublicServerUrl(e))
                              \o ";</script>"
         IN  IF ~found \/ html = "" THEN [threw |-> TRUE, html |-> ""]
             ELSE [threw |-> FALSE,
                   html  |-> ReplaceFirst(html, "<head>", "<head>" \o injection)]

Undefined == [defined |-> FALSE]

HRWidget(id, title, templateUri, invoking, invoked, html) ==
    [defined |-> TRUE, id |-> id, title |-> title, templateUri |-> templateUri,
     invoking |-> invoking, invoked |-> invoked, html |-> html]

NoWidgets ==
    [DASHBOARD_WIDGET |-> Undefined, PROFILE_WIDGET |-> Undefined,
     BULK_EDITOR_WIDGET |-> Undefined]

\* loadWidgets(): the three assignments in order; a throw of readWidgetHtml
\* leaves the assignments before it done.
loadWidgets(w, dir, e) ==
    LET assign(d, p, b) ==
            IF d.threw THEN [threw |-> TRUE, widgets |-> w]
            ELSE IF p.threw
            THEN [threw |-> TRUE,
                  widgets |-> [w EXCEPT
                     !.DASHBOARD_WIDGET =
                        HRWidget("hr-dashboard", "HR Dashboard",
                                 "ui://widget/hr-dashboard.html",
                                 "Loading HR dashboard...", "Dashboard ready", d.html)]]
            ELSE [threw |-> b.threw,
                  widgets |-> [w EXCEPT
                     !.DASHBOARD_WIDGET =
                        HRWidget("hr-dashboard", "HR Dashboard",
                                 "ui://widget/hr-dashboard.html",
                                 "Loading HR dashboard...", "Dashboard ready", d.html),
                     !.PROFILE_WIDGET =
                        HRWidget("consultant-profile", "Consultant Profile",
                                 "ui://widget/consultant-profile.html",
                                 "Loading consultant profile...", "Profile ready", p.html),
                     !.BULK_EDITOR_WIDGET =
                        IF b.threw THEN w.BULK_EDITOR_WIDGET
                        ELSE HRWidget("bulk-editor", "Bulk Editor",
                                      "ui://widget/bulk-editor.html",
                                      "Opening bulk editor...", "Editor ready", b.html)]]
    IN  assign(readWidgetHtml(dir, e, "hr-dashboard"),
               readWidgetHtml(dir, e, "consultant-profile"),
               readWidgetHtml(dir, e, "bulk-editor"))

getWidgets(w) == <<w.DASHBOARD_WIDGET, w.PROFILE_WIDGET, w.BULK_EDITOR_WIDGET>>

\* Meta attached to tool descriptors (list_tools, list_resources)
descriptorMeta(widget) ==
    [present |-> TRUE,
     outputTemplate |-> widget.templateUri,
     invoking |-> widget.invoking,
     invoked |-> widget.invoked,
     widgetAccessible |-> TRUE]

\* a variant with a fault: the invoked text is a copy of the invoking text
invocationMetaInvoking(widget) ==
    [present |-> TRUE,
     outputTemplate |-> widget.templateUri,
     invoking |-> widget.invoking,
     invoked |-> widget.invoking,
     widgetAccessible |-> TRUE]

\* Meta attached to call_tool responses
invocationMeta(widget) ==
    [present |-> TRUE,
     outputTemplate |-> widget.templateUri,
     invoking |-> widget.invoking,
     invoked |-> widget.invoked,
     widgetAccessible |-> TRUE]

\* a descriptor or a response without _meta
NoMeta == [present |-> FALSE]

-----------------------------------------------------------------------------
(* What a request handler produces: a result, or a throw.                  *)

NoContent == [present |-> FALSE]
Payload(kind, count) == [present |-> TRUE, kind |-> kind, count |-> count]

\* { content: [{type: "text", text}], structuredContent?, isError?, _meta? }
ToolResult(text, isError, structuredContent, meta) ==
    [kind |-> "result", text |-> text, isError |-> isError,
     structuredContent |-> structuredContent, _meta |-> meta]

\* the handler threw (the SDK answers with a JSON-RPC error object)
Threw(error) == [kind |-> "throw", error |-> error]

Outcome(st, response) == [db |-> st.db, ops |-> st.ops, resp |-> response]

\* `if (x)` on an optional string: present and not empty
Truthy(obj, key) == Has(obj, key) /\ obj[key].s # ""

RECURSIVE SumHours(_)
SumHours(forecast) ==
    IF forecast = <<>> THEN 0 ELSE Head(forecast).hours + SumHours(Tail(forecast))

RECURSIVE BillableHours(_)
BillableHours(assignments) ==
    IF assignments = <<>> THEN 0
    ELSE (IF Head(assignments).billable THEN SumHours(Head(assignments).forecast) ELSE 0)
            + BillableHours(Tail(assignments))

RECURSIVE AllHours(_)
AllHours(assignments) ==
    IF assignments = <<>> THEN 0
    ELSE SumHours(Head(assignments).forecast) + AllHours(Tail(assignments))

HasSkill(c, skill) ==
    \E i \in DOMAIN c.skills : Includes(ToLower(c.skills[i]), ToLower(skill))

HasName(c, name) == Includes(ToLower(c.name), ToLower(name))

\* the two optional filters of search-consultants and show-bulk-editor
FilterConsultants(list, filters) ==
    LET bySkill == IF Truthy(filters, "skill")
                   THEN SelectSeq(list, LAMBDA c : HasSkill(c, filters.skill.s))
                   ELSE list
    IN  IF Truthy(filters, "name")
        THEN SelectSeq(bySkill, LAMBDA c : HasName(c, filters.name.s))
        ELSE bySkill

\* case "show-hr-dashboard"
showHrDashboard(w, st, args) ==
    IF ~zAccepts(dashboardParser, args) THEN Outcome(st, Threw("ZodError"))
    ELSE
    LET filters     == zData(dashboardParser, args)
        consultants == getAllConsultants(st)
        projects    == getAllProjects(consultants)
        assignments == getAllAssignments(projects)
        total       == BillableHours(assignments.result)
        parts ==
            (IF Truthy(filters, "consultantName")
             THEN <<"consultant: \"" \o filters.consultantName.s \o "\"">> ELSE <<>>)
            \o (IF Truthy(filters, "projectName")
                THEN <<"project: \"" \o filters.projectName.s \o "\"">> ELSE <<>>)
            \o (IF Truthy(filters, "skill")
                THEN <<"skill: \"" \o filters.skill.s \o "\"">> ELSE <<>>)
            \o (IF Truthy(filters, "role")
                THEN <<"role: \"" \o filters.role.s \o "\"">> ELSE <<>>)
            \o (IF Has(filters, "billable")
                THEN <<IF filters.billable.b THEN "billable only" ELSE "non-billable only">>
                ELSE <<>>)
        filterDesc == IF Len(parts) > 0 THEN " (filtered by " \o Join(parts, ", ") \o ")"
                      ELSE ""
    IN  Outcome(assignments,
            ToolResult("HR Dashboard: " \o ToString(Len(consultants.result))
                          \o " consultants, " \o ToString(Len(projects.result))
                          \o " projects, " \o ToString(total)
                          \o " billable hours forecasted." \o filterDesc,
                       FALSE,
                       Payload("dashboard", Len(consultants.result)),
                       invocationMeta(w.DASHBOARD_WIDGET)))

\* case "show-consultant-profile"
showConsultantProfile(w, st, args) ==
    IF ~zAccepts(profileParser, args) THEN Outcome(st, Threw("ZodError"))
    ELSE
    LET consultantId == args.consultantId.s
        consultant   == getConsultantById(st, consultantId)
    IN  IF ~consultant.result.found
        THEN Outcome(consultant,
                ToolResult("Consultant " \o consultantId \o " not found.",
                           TRUE, NoContent, NoMeta))
        ELSE
        LET assignments == getAssignmentsByConsultant(consultant, consultantId)
            allProjects == getAllProjects(assignments)
        IN  Outcome(allProjects,
                ToolResult("Profile for " \o consultant.result.name \o ": "
                              \o Join(consultant.result.skills, ", ") \o " | "
                              \o ToString(Len(assignments.result))
                              \o " active assignment(s).",
                           FALSE,
                           Payload("profile", Len(assignments.result)),
                           invocationMeta(w.PROFILE_WIDGET)))

\* case "search-consultants"
searchConsultants(w, st, args) ==
    IF ~zAccepts(searchParser, args) THEN Outcome(st, Threw("ZodError"))
    ELSE
    LET all     == getAllConsultants(st)
        results == FilterConsultants(all.result, zData(searchParser, args))
    IN  Outcome(all,
            ToolResult("Found " \o ToString(Len(results))
                          \o " consultant(s) matching criteria.",
                       FALSE,
                       Payload("consultants", Len(results)),
                       invocationMeta(w.BULK_EDITOR_WIDGET)))

\* case "show-bulk-editor"
showBulkEditor(w, st, args) ==
    IF ~zAccepts(bulkEditorParser, args) THEN Outcome(st, Threw("ZodError"))
    ELSE
    LET filters     == zData(bulkEditorParser, args)
        all         == getAllConsultants(st)
        consultants == FilterConsultants(all.result, filters)
        filterDesc  ==
            Join((IF Truthy(filters, "skill")
                  THEN <<"skill: \"" \o filters.skill.s \o "\"">> ELSE <<>>)
                 \o (IF Truthy(filters, "name")
                     THEN <<"name: \"" \o filters.name.s \o "\"">> ELSE <<>>), ", ")
    IN  Outcome(all,
            ToolResult("Bulk editor loaded with " \o ToString(Len(consultants))
                          \o " consultant record(s)"
                          \o (IF filterDesc # "" THEN " (filtered by " \o filterDesc \o ")"
                              ELSE "")
                          \o ".",
                       FALSE,
                       Payload("consultants", Len(consultants)),
                       invocationMeta(w.BULK_EDITOR_WIDGET)))

\* `const { consultantId, ...updates } = parsed`
Without(obj, key) == [k \in (DOMAIN obj) \ {key} |-> obj[k]]

\* case "update-consultant"
updateConsultantTool(w, st, args) ==
    IF ~zAccepts(updateParser, args) THEN Outcome(st, Threw("ZodError"))
    ELSE
    LET parsed       == zData(updateParser, args)
        consultantId == parsed.consultantId.s
        updated      == updateConsultant(st, consultantId, Without(parsed, "consultantId"))
    IN  IF ~updated.result.found
        THEN Outcome(updated,
                ToolResult("Consultant " \o consultantId \o " not found.",
                           TRUE, NoContent, NoMeta))
        ELSE Outcome(updated,
                ToolResult("Updated consultant " \o updated.result.name
                              \o " (ID: " \o consultantId \o ").",
                           FALSE, NoContent, NoMeta))

\* the loop `for (const consultantId of consultantIds)` of bulk-update-consultants;
\* acc is [db, ops, result]: result holds the lines pushed so far
RECURSIVE bulkUpdateLoop(_, _, _)
bulkUpdateLoop(acc, consultantIds, changes) ==
    IF consultantIds = <<>> THEN acc
    ELSE LET consultantId == Head(consultantIds)
             updated      == updateConsultant(acc, consultantId, changes)
             line         == IF updated.result.found
                             THEN "(ok) Updated " \o updated.result.name
                             ELSE "(x) Consultant " \o consultantId \o " not found"
         IN  bulkUpdateLoop(Did(updated, updated.db, <<>>, Append(acc.result, line)),
                            Tail(consultantIds), changes)

\* case "bulk-update-consultants"
bulkUpdateConsultants(w, st, args) ==
    IF ~zAccepts(bulkUpdateParser, args) THEN Outcome(st, Threw("ZodError"))
    ELSE
    LET parsed == zData(bulkUpdateParser, args)
        done   == bulkUpdateLoop(Did(st, st.db, <<>>, <<>>),
                                 StringsOf(parsed.consultantIds.a),
                                 Without(parsed, "consultantIds"))
    IN  Outcome(done,
            ToolResult("Bulk update complete:\n" \o Join(done.result, "\n"),
                       FALSE, NoContent, NoMeta))

\* case "show-project-details"
showProjectDetails(w, st, args) ==
    IF ~zAccepts(projectDetailParser, args) THEN Outcome(st, Threw("ZodError"))
    ELSE
    LET projectId == args.projectId.s
        project   == getProjectById(st, projectId)
    IN  IF ~project.result.found
        THEN Outcome(project,
                ToolResult("Project " \o projectId \o " not found.",
                           TRUE, NoContent, NoMeta))
        ELSE
        LET assignments    == getAssignmentsByProject(project, projectId)
            allConsultants == getAllConsultants(assignments)
        IN  Outcome(allConsultants,
                ToolResult("Project \"" \o project.result.name \o "\" for "
                              \o project.result.clientName \o ": "
                              \o ToString(Len(assignments.result)) \o " assignment(s).",
                           FALSE,
                           Payload("project", AllHours(assignments.result)),
                           invocationMeta(w.DASHBOARD_WIDGET)))

\* the object handed to db.createAssignment: billable and rate may be undefined
AssignmentData(projectId, consultantId, role, parsed) ==
    [k \in {"projectId", "consultantId", "role"}
            \cup ((DOMAIN parsed) \cap {"billable", "rate"}) |->
        CASE k = "projectId"    -> projectId
          [] k = "consultantId" -> consultantId
          [] k = "role"         -> role
          [] OTHER              -> parsed[k]]

\* case "assign-consultant-to-project"
assignConsultantToProject(w, st, args) ==
    IF ~zAccepts(assignConsultantParser, args) THEN Outcome(st, Threw("ZodError"))
    ELSE
    LET parsed  == zData(assignConsultantParser, args)
        project == getProjectById(st, parsed.projectId.s)
    IN  IF ~project.result.found
        THEN Outcome(project,
                ToolResult("Project " \o parsed.projectId.s \o " not found.",
                           TRUE, NoContent, NoMeta))
        ELSE
        LET consultant == getConsultantById(project, parsed.consultantId.s) IN
        IF ~consultant.result.found
        THEN Outcome(consultant,
                ToolResult("Consultant " \o parsed.consultantId.s \o " not found.",
                           TRUE, NoContent, NoMeta))
        ELSE
        LET created == createAssignment(consultant,
                          AssignmentData(parsed.projectId.s, parsed.consultantId.s,
                                         parsed.role.s, parsed))
        IN  Outcome(created,
                ToolResult("Assigned " \o consultant.result.name \o " to project \""
                              \o project.result.name \o "\" as " \o parsed.role.s
                              \o (IF Has(parsed, "billable") /\ ~parsed.billable.b
                                  THEN " (non-billable)" ELSE "")
                              \o (IF Has(parsed, "rate") /\ parsed.rate.n # 0
                                  THEN " at $" \o ToString(parsed.rate.n) \o "/hr" ELSE "")
                              \o ".",
                           FALSE, NoContent, NoMeta))

\* the loop `for (const consultantId of consultantIds)` of bulk-assign-consultants
RECURSIVE bulkAssignLoop(_, _, _)
bulkAssignLoop(acc, consultantIds, parsed) ==
    IF consultantIds = <<>> THEN acc
    ELSE LET consultantId == Head(consultantIds)
             consultant   == getConsultantById(acc, consultantId)
         IN  IF ~consultant.result.found
             THEN bulkAssignLoop(
                     Did(consultant, consultant.db, <<>>,
                         Append(acc.result, "(x) Consultant " \o consultantId \o " not found")),
                     Tail(consultantIds), parsed)
             ELSE LET created == createAssignment(consultant,
                                    AssignmentData(parsed.projectId.s, consultantId,
                                                   parsed.role.s, parsed))
                  IN  bulkAssignLoop(
                         Did(created, created.db, <<>>,
                             Append(acc.result, "(ok) Assigned " \o consultant.result.name
                                                    \o " as " \o parsed.role.s)),
                         Tail(consultantIds), parsed)

\* case "bulk-assign-consultants"
bulkAssignConsultants(w, st, args) ==
    IF ~zAccepts(bulkAssignParser, args) THEN Outcome(st, Threw("ZodError"))
    ELSE
    LET parsed  == zData(bulkAssignParser, args)
        project == getProjectById(st, parsed.projectId.s)
    IN  IF ~project.result.found
        THEN Outcome(project,
                ToolResult("Project " \o parsed.projectId.s \o " not found.",
                           TRUE, NoContent, NoMeta))
        ELSE
        LET done == bulkAssignLoop(Did(project, project.db, <<>>, <<>>),
                                   StringsOf(parsed.consultantIds.a), parsed)
        IN  Outcome(done,
                ToolResult("Bulk assignment to \"" \o project.result.name
                              \o "\" complete:\n" \o Join(done.result, "\n"),
                           FALSE, NoContent, NoMeta))

\* a variant with a fault: the switch has no case "remove-assignment"
removeAssignmentNoCase(w, st, args) ==
    Outcome(st, ToolResult("Unknown tool: remove-assignment", TRUE, NoContent, NoMeta))

\* case "remove-assignment"
removeAssignment(w, st, args) ==
    IF ~zAccepts(removeAssignmentParser, args) THEN Outcome(st, Threw("ZodError"))
    ELSE
    LET projectId    == args.projectId.s
        consultantId == args.consultantId.s
        removed      == deleteAssignment(st, projectId, consultantId)
    IN  IF ~removed.result
        THEN Outcome(removed,
                ToolResult("Assignment for consultant " \o consultantId \o " on project "
                              \o projectId \o " not found.",
                           TRUE, NoContent, NoMeta))
        ELSE Outcome(removed,
                ToolResult("Removed assignment: consultant " \o consultantId
                              \o " from project " \o projectId \o ".",
                           FALSE, NoContent, NoMeta))

\* a variant with a fault: `default: throw new Error(...)`
unknownToolThrows(w, st, name) == Outcome(st, Threw("Error: Unknown tool: " \o name))

\* default:
unknownTool(w, st, name) ==
    Outcome(st, ToolResult("Unknown tool: " \o name, TRUE, NoContent, NoMeta))

\* the CallToolRequestSchema handler: `args = rawArgs ?? {}`, then the switch
callTool(w, tables, name, rawArgs) ==
    LET args == IF rawArgs.present THEN rawArgs.obj ELSE EmptyObject
        st   == Start(tables)
    IN  CASE name = "show-hr-dashboard"            -> showHrDashboard(w, st, args)
          [] name = "show-consultant-profile"      -> showConsultantProfile(w, st, args)
          [] name = "search-consultants"           -> searchConsultants(w, st, args)
          [] name = "show-bulk-editor"             -> showBulkEditor(w, st, args)
          [] name = "update-consultant"            -> updateConsultantTool(w, st, args)
          [] name = "bulk-update-consultants"      -> bulkUpdateConsultants(w, st, args)
          [] name = "show-project-details"         -> showProjectDetails(w, st, args)
          [] name = "assign-consultant-to-project" -> assignConsultantToProject(w, st, args)
          [] name = "bulk-assign-consultants"      -> bulkAssignConsultants(w, st, args)
          [] name = "remove-assignment"            -> removeAssignment(w, st, args)
          [] OTHER                                 -> unknownTool(w, st, name)

-----------------------------------------------------------------------------
(* Tool input schemas and the server factory createHRServer.               *)

Prop(key, type) == [key |-> key, type |-> type]

InputSchema(properties, required) ==
    [type |-> "object", properties |-> properties, required |-> required,
     additionalProperties |-> FALSE]

dashboardInputSchema ==
    InputSchema({Prop("consultantName", "string"), Prop("projectName", "string"),
                 Prop("skill", "string"), Prop("role", "string"),
                 Prop("billable", "boolean")}, {})

profileInputSchema == InputSchema({Prop("consultantId", "string")}, {"consultantId"})

searchInputSchema == InputSchema({Prop("skill", "string"), Prop("name", "string")}, {})

bulkEditorInputSchema == InputSchema({Prop("skill", "string"), Prop("name", "string")}, {})

updateConsultantInputSchema ==
    InputSchema({Prop("consultantId", "string"), Prop("name", "string"),
                 Prop("email", "string"), Prop("phone", "string"),
                 Prop("skills", "string[]"), Prop("roles", "string[]")},
                {"consultantId"})

bulkUpdateInputSchema ==
    InputSchema({Prop("consultantIds", "string[]"), Prop("name", "string"),
                 Prop("email", "string"), Prop("phone", "string"),
                 Prop("skills", "string[]"), Prop("roles", "string[]")},
                {"consultantIds"})

projectDetailInputSchema == InputSchema({Prop("projectId", "string")}, {"projectId"})

assignConsultantInputSchema ==
    InputSchema({Prop("projectId", "string"), Prop("consultantId", "string"),
                 Prop("role", "string"), Prop("billable", "boolean"),
                 Prop("rate", "number")},
                {"projectId", "consultantId", "role"})

bulkAssignInputSchema ==
    InputSchema({Prop("projectId", "string"), Prop("consultantIds", "string[]"),
                 Prop("role", "string"), Prop("billable", "boolean"),
                 Prop("rate", "number")},
                {"projectId", "consultantIds", "role"})

removeAssignmentInputSchema ==
    InputSchema({Prop("projectId", "string"), Prop("consultantId", "string")},
                {"projectId", "consultantId"})

Annotations(destructiveHint, openWorldHint, readOnlyHint) ==
    [destructiveHint |-> destructiveHint, openWorldHint |-> openWorldHint,
     readOnlyHint |-> readOnlyHint]

Tool(name, inputSchema, meta, annotations) ==
    [name |-> name, inputSchema |-> inputSchema, _meta |-> meta,
     annotations |-> annotations]

\* const tools: Tool[] = [...]
tools(w) ==
    << Tool("show-hr-dashboard", dashboardInputSchema,
            descriptorMeta(w.DASHBOARD_WIDGET), Annotations(FALSE, FALSE, TRUE)),
       Tool("show-consultant-profile", profileInputSchema,
            descriptorMeta(w.PROFILE_WIDGET), Annotations(FALSE, FALSE, TRUE)),
       Tool("search-consultants", searchInputSchema,
            descriptorMeta(w.BULK_EDITOR_WIDGET), Annotations(FALSE, FALSE, TRUE)),
       Tool("show-bulk-editor", bulkEditorInputSchema,
            descriptorMeta(w.BULK_EDITOR_WIDGET), Annotations(FALSE, FALSE, FALSE)),
       Tool("update-consultant", updateConsultantInputSchema,
            NoMeta, Annotations(TRUE, FALSE, FALSE)),
       Tool("bulk-update-consultants", bulkUpdateInputSchema,
            NoMeta, Annotations(TRUE, FALSE, FALSE)),
       Tool("show-project-details", projectDetailInputSchema,
            descriptorMeta(w.DASHBOARD_WIDGET), Annotations(FALSE, FALSE, TRUE)),
       Tool("assign-consultant-to-project", assignConsultantInputSchema,
            NoMeta, Annotations(FALSE, FALSE, FALSE)),
       Tool("bulk-assign-consultants", bulkAssignInputSchema,
            NoMeta, Annotations(FALSE, FALSE, FALSE)),
       Tool("remove-assignment", removeAssignmentInputSchema,
            NoMeta, Annotations(TRUE, FALSE, FALSE)) >>

\* a variant with a fault: the resource is listed under the widget's id
ResourceById(widget) ==
    [uri |-> widget.id, name |-> widget.title,
     description |-> widget.title \o " widget markup", mimeType |-> MIME_TYPE,
     _meta |-> descriptorMeta(widget)]

Resource(widget) ==
    [uri |-> widget.templateUri, name |-> widget.title,
     description |-> widget.title \o " widget markup", mimeType |-> MIME_TYPE,
     _meta |-> descriptorMeta(widget)]

ResourceTemplate(widget) ==
    [uriTemplate |-> widget.templateUri, name |-> widget.title,
     description |-> widget.title \o " widget markup", mimeType |-> MIME_TYPE,
     _meta |-> descriptorMeta(widget)]

\* createHRServer(): load the widgets on the first call, then build the lists
\* the handlers close over.  It throws when readWidgetHtml throws, and when a
\* widget of getWidgets() is undefined (w.templateUri of undefined).
createHRServer(w, dir, e) ==
    LET build(loaded, widgetList) ==
            IF loaded.threw \/ \E i \in DOMAIN widgetList : ~widgetList[i].defined
            THEN [threw |-> TRUE, widgets |-> loaded.widgets]
            ELSE [threw             |-> FALSE,
                  widgets           |-> loaded.widgets,
                  widgetList        |-> widgetList,
                  resources         |-> [i \in DOMAIN widgetList |->
                                            Resource(widgetList[i])],
                  resourceTemplates |-> [i \in DOMAIN widgetList |->
                                            ResourceTemplate(widgetList[i])],
                  tools             |-> tools(loaded.widgets)]
        ensure(loaded) == build(loaded, getWidgets(loaded.widgets))
    IN  ensure(IF ~w.DASHBOARD_WIDGET.defined THEN loadWidgets(w, dir, e)
               ELSE [threw |-> FALSE, widgets |-> w])

\* a variant with a fault: an unknown uri throws
readResourceThrows(server, uri) ==
    LET hits == {i \in DOMAIN server.widgetList : server.widgetList[i].templateUri = uri}
    IN  IF hits = {}
        THEN Threw("Error: Unknown resource: " \o uri)
        ELSE LET widget == server.widgetList[CHOOSE i \in hits : \A j \in hits : j <= i]
             IN  [kind |-> "result",
                  contents |-> << [uri |-> widget.templateUri, mimeType |-> MIME_TYPE,
                                   text |-> widget.html,
                                   _meta |-> descriptorMeta(widget)] >>,
                  _meta |-> NoMeta]

\* the ReadResourceRequestSchema handler: widgetsByUri.get(uri)
readResource(server, uri) ==
    LET hits == {i \in DOMAIN server.widgetList : server.widgetList[i].templateUri = uri}
    IN  IF hits = {}
        THEN [kind |-> "result", contents |-> <<>>,
              _meta |-> [present |-> TRUE, error |-> "Unknown resource: " \o uri]]
        ELSE LET widget == server.widgetList[CHOOSE i \in hits : \A j \in hits : j <= i]
             IN  [kind |-> "result",
                  contents |-> << [uri |-> widget.templateUri, mimeType |-> MIME_TYPE,
                                   text |-> widget.html,
                                   _meta |-> descriptorMeta(widget)] >>,
                  _meta |-> NoMeta]

\* the catch of app.post("/mcp"): res.status(500).json({... code: -32603 ...})
InternalServerError == [kind |-> "http", status |-> 500, code |-> -32603]

-----------------------------------------------------------------------------
(* The inputs of the server: deployments and requests.                     *)

MaxBulk == 2

Markup(body) == "<html><head><title>" \o body \o "</title></head></html>"

ExactAssets ==
    [exists |-> TRUE,
     files  |-> [f \in {"hr-dashboard.html", "consultant-profile.html", "bulk-editor.html"}
                    |-> Markup(f)]]

MissingProfileAssets ==
    [exists |-> TRUE,
     files  |-> [f \in {"hr-dashboard.html", "bulk-editor.html"} |-> Markup(f)]]

\* a build that content-hashes file names; two builds of the dashboard are left
HashedAssets ==
    [exists |-> TRUE,
     files  |-> [f \in {"hr-dashboard-2d2b.html", "hr-dashboard-9f1c.html",
                        "consultant-profile.html", "bulk-editor-ab12.html"}
                    |-> Markup(f)]]

AssetDirs == {ExactAssets, HashedAssets, MissingProfileAssets}

DefaultEnvironment == [SERVER_BASE_URL |-> "", ADDITIONAL_ALLOWED_ORIGINS |-> ""]

\* an absent key of an arguments object, while the object is being put together
Absent == [t |-> "absent", s |-> "", n |-> 0, b |-> FALSE, a |-> <<>>]

\* the object with the keys of r that are not Absent
Compact(r) == [k \in {k \in DOMAIN r : r[k] # Absent} |-> r[k]]

Args(obj) == [present |-> TRUE, obj |-> obj]
NoArgs == [present |-> FALSE, obj |-> EmptyObject]

\* arrays of up to MaxBulk consultant ids, existing ("1", "2") or not ("9")
RECURSIVE IdArrays(_)
IdArrays(n) ==
    IF n = 0 THEN {<<>>}
    ELSE IdArrays(n - 1)
            \cup {Append(x, JStr(id)) : x \in {y \in IdArrays(n - 1) : Len(y) = n - 1},
                                        id \in {"1", "2", "9"}}

ConsultantIdChoices  == {Absent, JStr("1"), JStr("9"), JNum(1)}
ConsultantIdsChoices ==
    {Absent, JStr("1"), JArr(<<JNum(1)>>)} \cup {JArr(x) : x \in IdArrays(MaxBulk)}
ProjectIdChoices     == {Absent, JStr("1"), JStr("9"), JNull}
Undeclared           == {Absent, JStr("x")}

DashboardArgs ==
    {Compact([consultantName |-> c, billable |-> b]) :
        c \in {Absent, JStr("avery")}, b \in {Absent, JBool(TRUE), JStr("yes")}}

ProfileArgs ==
    {Compact([consultantId |-> c, bogus |-> u]) :
        c \in ConsultantIdChoices, u \in Undeclared}

SearchArgs ==
    {Compact([skill |-> k, name |-> n]) :
        k \in {Absent, JStr("azure"), JNum(3)}, n \in {Absent, JStr("san")}}

UpdateArgs ==
    {Compact([consultantId |-> c, name |-> n, skills |-> k]) :
        c \in ConsultantIdChoices, n \in {Absent, JStr("Zed"), JNum(7)},
        k \in {Absent, JArr(<<JStr("Go")>>)}}
    \cup {Compact([consultantId |-> JStr("1"), name |-> n, bogus |-> JStr("x")]) :
            n \in {Absent, JStr("Zed")}}

BulkUpdateArgs ==
    {Compact([consultantIds |-> c, name |-> n]) :
        c \in ConsultantIdsChoices, n \in {Absent, JStr("Zed")}}

ProjectDetailArgs ==
    {Compact([projectId |-> p]) : p \in ProjectIdChoices}

AssignArgs ==
    {Compact([projectId |-> p, consultantId |-> c, role |-> JStr("Architect"),
              billable |-> b]) :
        p \in {JStr("1"), JStr("9")}, c \in {JStr("1"), JStr("2"), JStr("9")},
        b \in {Absent, JBool(FALSE)}}
    \cup {Compact([projectId |-> JStr("1"), consultantId |-> JStr("2"), role |-> r,
                   rate |-> x]) :
            r \in {Absent, JStr("Architect")}, x \in {JStr("120"), JNum(120)}}

BulkAssignArgs ==
    {Compact([projectId |-> p, consultantIds |-> c, role |-> JStr("Architect"),
              billable |-> b]) :
        p \in {JStr("1"), JStr("9")}, c \in ConsultantIdsChoices,
        b \in {Absent, JBool(FALSE)}}

RemoveArgs ==
    {Compact([projectId |-> p, consultantId |-> c]) :
        p \in ProjectIdChoices, c \in {Absent, JStr("1"), JStr("2")}}

ToolNames ==
    {"show-hr-dashboard", "show-consultant-profile", "search-consultants",
     "show-bulk-editor", "update-consultant", "bulk-update-consultants",
     "show-project-details", "assign-consultant-to-project",
     "bulk-assign-consultants", "remove-assignment"}

\* names no case of the switch handles
OtherNames == {"", "delete-consultant", "Update-Consultant", "update-consultant "}

ArgsFor(name) ==
    CASE name = "show-hr-dashboard"            -> DashboardArgs
      [] name = "show-consultant-profile"      -> ProfileArgs
      [] name = "search-consultants"           -> SearchArgs
      [] name = "show-bulk-editor"             -> SearchArgs
      [] name = "update-consultant"            -> UpdateArgs
      [] name = "bulk-update-consultants"      -> BulkUpdateArgs
      [] name = "show-project-details"         -> ProjectDetailArgs
      [] name = "assign-consultant-to-project" -> AssignArgs
      [] name = "bulk-assign-consultants"      -> BulkAssignArgs
      [] name = "remove-assignment"            -> RemoveArgs
      [] OTHER -> {EmptyObject, Compact([consultantId |-> JStr("1"), name |-> JStr("Zed")])}

Uris ==
    {"ui://widget/hr-dashboard.html", "ui://widget/consultant-profile.html",
     "ui://widget/bulk-editor.html", "ui://widget/unknown.html", "",
     "ui://widget/hr-dashboard"}

-----------------------------------------------------------------------------
(* The /mcp routes of the Express app.  app.use(cors(corsOptions)) runs    *)
(* before every route; each route builds one server and one transport,     *)
(* registers their release on the close of the response, and hands the     *)
(* request to the transport.                                               *)

MaxRequests == 2

\* the HTTP exchanges the front door sees, in the order they come in
Exchanges == 1..MaxRequests

ComponentNames == {"hr-dashboard", "consultant-profile", "bulk-editor"}

\* corsOptions, as far as the headers of a response depend on it
corsOptions == [credentials |-> FALSE, exposedHeaders |-> <<"Mcp-Session-Id">>]

NoHeader == [present |-> FALSE, value |-> ""]
Header(v) == [present |-> TRUE, value |-> v]

\* cors(corsOptions) on a GET, POST or DELETE: the headers it sets for the
\* value cb the origin callback was answered with.  With `false` it sets none;
\* with `true` it reflects the request's Origin header, if there is one.
corsHeaders(origin, cb) ==
    [allowOrigin      |-> IF cb.reflect = "false" THEN NoHeader
                          ELSE IF cb.reflect = "true"
                          THEN (IF origin.present THEN Header(origin.value) ELSE NoHeader)
                          ELSE Header(cb.reflect),
     allowCredentials |-> IF corsOptions.credentials THEN Header("true") ELSE NoHeader]

NoCorsHeaders == [allowOrigin |-> NoHeader, allowCredentials |-> NoHeader]

\* console.warn(`CORS: blocked origin "${origin}"`)
BlockedOriginWarning(origin) ==
    [level |-> "warn", text |-> "CORS: blocked origin \"" \o origin.value \o "\""]

\* console.error("Error handling MCP request:", error) and its GET / DELETE forms
HandlingError(method) ==
    [level |-> "error",
     text  |-> CASE method = "POST"   -> "Error handling MCP request:"
                 [] method = "GET"    -> "Error handling MCP GET:"
                 [] method = "DELETE" -> "Error handling MCP DELETE:"]

\* the catch of app.get / app.delete: res.status(405).json({... code: -32000 ...})
MethodNotAllowed == [kind |-> "http", status |-> 405, code |-> -32000]

\* what the catch of a route answers with
CatchResponse(method) ==
    IF method = "POST" THEN InternalServerError ELSE MethodNotAllowed

\* the components readWidgetHtml is called for by one createHRServer()
readWidgetHtmlCalls(w, dir, e) ==
    IF w.DASHBOARD_WIDGET.defined THEN {}
    ELSE IF readWidgetHtml(dir, e, "hr-dashboard").threw THEN {"hr-dashboard"}
    ELSE IF readWidgetHtml(dir, e, "consultant-profile").threw
    THEN {"hr-dashboard", "consultant-profile"}
    ELSE ComponentNames

\* readWidgetHtml(componentName) gets as far as an fs.readFileSync
readsFile(dir, componentName) ==
    /\ dir.exists
    /\ \/ (componentName \o ".html") \in DOMAIN dir.files
       \/ \E f \in DOMAIN dir.files :
             StartsWith(f, componentName \o "-") /\ EndsWith(f, ".html")

\* the fs.readFileSync calls of one createHRServer(), added to the count so far
countReads(reads, w, dir, e) ==
    [c \in ComponentNames |->
        IF c \in readWidgetHtmlCalls(w, dir, e) /\ readsFile(dir, c)
        THEN reads[c] + 1 ELSE reads[c]]

\* an instance of Server / StreamableHTTPServerTransport: who it serves, the
\* requests it has handled, and whether close() was called on it
Instance(owner) == [owner |-> owner, handled |-> {}, closed |-> FALSE]

\* a variant with a fault: one server is made once and handed to every request
sharedServer(pool) == 1

\* `new Server(...)`: an object that did not exist before
newServer(pool) == Len(pool) + 1

\* `new StreamableHTTPServerTransport(...)`
newTransport(pool) == Len(pool) + 1

\* pool with the instance id in it (as made for owner, if it is new)
WithInstance(pool, id, owner) ==
    IF id \in DOMAIN pool THEN pool ELSE Append(pool, Instance(owner))

\* a variant with a fault: close() is never called
closeNothing(pool, id) == pool

\* a variant with a fault: closing one instance closes them all
closeEvery(pool, id) == [i \in DOMAIN pool |-> [pool[i] EXCEPT !.closed = TRUE]]

\* transport.close() / server.close() of the close listener of one response
closeInstance(pool, id) == [pool EXCEPT ![id].closed = TRUE]

\* the instance handles a message of request r
noteHandled(pool, id, r) == [pool EXCEPT ![id].handled = @ \cup {r}]

\* An HTTP exchange: pc is its position (idle, dispatching, responded,
\* aborted, closed); logged holds the console lines printed for it.
NoExchange ==
    [pc |-> "idle", method |-> "", origin |-> NoOrigin, body |-> [kind |-> "none"],
     headers |-> NoCorsHeaders, response |-> [kind |-> "none"], logged |-> {},
     server |-> 0, transport |-> 0, handled |-> FALSE]

\* the exchange is over: request and response are gone, the instances remain
Over(x, pc) ==
    [NoExchange EXCEPT !.pc = pc, !.server = x.server, !.transport = x.transport,
                       !.handled = x.handled]

\* the JSON-RPC bodies of the POST requests
HttpBodies ==
    {[kind |-> "tools/list"],
     [kind |-> "tools/call", name |-> "update-consultant",
      arguments |-> Args([consultantId |-> JStr("1"), name |-> JStr("Zed")])],
     [kind |-> "resources/read", uri |-> "ui://widget/hr-dashboard.html"]}

HttpMethods == {"POST", "GET", "DELETE"}

\* Origin headers: none, one the allow-list admits, one it does not
HttpOrigins == {NoOrigin, OriginOf("https://chat.chatgpt.com"), OriginOf("https://evil.net")}

\* hr-dashboard.html was written empty by a build that failed
EmptyDashboardAssets ==
    [exists |-> TRUE,
     files  |-> [f \in {"hr-dashboard.html", "consultant-profile.html", "bulk-editor.html"}
                   |-> IF f = "hr-dashboard.html" THEN "" ELSE Markup(f)]]

HttpAssetDirs == {ExactAssets, MissingProfileAssets, EmptyDashboardAssets}

\* What the handler registered for the body's method produces.  The handlers
\* close over the lists createHRServer() built from the loaded widgets w.
handleMessage(w, tables, body) ==
    CASE body.kind = "tools/call" ->
            callTool(w, tables, body.name, body.arguments)
      [] body.kind = "tools/list" ->
            [db |-> tables, ops |-> <<>>,
             resp |-> [kind |-> "result", tools |-> tools(w)]]
      [] body.kind = "resources/read" ->
            [db |-> tables, ops |-> <<>>,
             resp |-> readResource([widgetList |-> getWidgets(w)], body.uri)]

\* what the transport answers a GET or a DELETE with; no handler runs
TransportAnswer(method) == [kind |-> "transport", method |-> method]

-----------------------------------------------------------------------------
(* Tool handlers in flight.  A handler is an async function: it runs up to  *)
(* its next `await` on a table operation and is resumed when the operation *)
(* settles, so handlers of concurrent requests interleave at their awaits. *)

MaxCalls == 2
Calls == 1..MaxCalls

\* A handler that was not called yet.  ids: the consultant ids still to update;
\* updates: the fields to change; existing: what getConsultantById returned;
\* results: the lines pushed so far; writes: updateEntity calls issued;
\* aborted: the response of the request emitted "close" before it was sent.
NoCall ==
    [pc |-> "idle", name |-> "", ids |-> <<>>, updates |-> EmptyObject,
     existing |-> NullEntity, results |-> <<>>, writes |-> 0, aborted |-> FALSE]

-----------------------------------------------------------------------------
(* The state machine: one request at a time is received, handled by a      *)
(* fresh server, and closed.                                               *)

NoRequest  == [kind |-> "none"]
NoResponse == [kind |-> "none"]

InitWith(e, dir) ==
    /\ env = e
    /\ ALLOWED_ORIGINS = buildAllowedOrigins(e)
    /\ cors = NoCors
    /\ assets = dir
    /\ widgets = NoWidgets
    /\ db = SeededTables
    /\ req = NoRequest
    /\ resp = NoResponse
    /\ dbOps = <<>>
    /\ exchanges = [r \in Exchanges |-> NoExchange]
    /\ servers = <<>>
    /\ transports = <<>>
    /\ fsReads = [c \in ComponentNames |-> 0]
    /\ calls = [c \in Calls |-> NoCall]

Init == \E dir \in AssetDirs : InitWith(DefaultEnvironment, dir)

\* app.post("/mcp") with a tools/call body
CallTool(name, rawArgs) ==
    /\ req = NoRequest
    /\ req' = [kind |-> "tools/call", name |-> name, arguments |-> rawArgs]
    /\ \E server \in {createHRServer(widgets, assets, env)} :
       /\ widgets' = server.widgets
       /\ IF server.threw
          THEN resp' = InternalServerError /\ db' = db /\ dbOps' = <<>>
          ELSE \E out \in {callTool(server.widgets, db, name, rawArgs)} :
                  resp' = out.resp /\ db' = out.db /\ dbOps' = out.ops
    /\ UNCHANGED <<env, ALLOWED_ORIGINS, cors, assets>>
    /\ UNCHANGED lifecycle

\* app.post("/mcp") with a resources/read body
ReadResource(uri) ==
    /\ req = NoRequest
    /\ req' = [kind |-> "resources/read", uri |-> uri]
    /\ \E server \in {createHRServer(widgets, assets, env)} :
       /\ widgets' = server.widgets
       /\ resp' = IF server.threw THEN InternalServerError
                  ELSE readResource(server, uri)
    /\ UNCHANGED <<env, ALLOWED_ORIGINS, cors, assets, db, dbOps>>
    /\ UNCHANGED lifecycle

\* app.post("/mcp") with a tools/list body
ListTools ==
    /\ req = NoRequest
    /\ req' = [kind |-> "tools/list"]
    /\ \E server \in {createHRServer(widgets, assets, env)} :
       /\ widgets' = server.widgets
       /\ resp' = IF server.threw THEN InternalServerError
                  ELSE [kind |-> "result", tools |-> server.tools]
    /\ UNCHANGED <<env, ALLOWED_ORIGINS, cors, assets, db, dbOps>>
    /\ UNCHANGED lifecycle

\* app.post("/mcp") with a resources/list body
ListResources ==
    /\ req = NoRequest
    /\ req' = [kind |-> "resources/list"]
    /\ \E server \in {createHRServer(widgets, assets, env)} :
       /\ widgets' = server.widgets
       /\ resp' = IF server.threw THEN InternalServerError
                  ELSE [kind |-> "result", resources |-> server.resources]
    /\ UNCHANGED <<env, ALLOWED_ORIGINS, cors, assets, db, dbOps>>
    /\ UNCHANGED lifecycle

\* app.post("/mcp") with a resources/templates/list body
ListResourceTemplates ==
    /\ req = NoRequest
    /\ req' = [kind |-> "resources/templates/list"]
    /\ \E server \in {createHRServer(widgets, assets, env)} :
       /\ widgets' = server.widgets
       /\ resp' = IF server.threw THEN InternalServerError
                  ELSE [kind |-> "result",
                        resourceTemplates |-> server.resourceTemplates]
    /\ UNCHANGED <<env, ALLOWED_ORIGINS, cors, assets, db, dbOps>>
    /\ UNCHANGED lifecycle

\* res.on("close"): the request is over
Close ==
    /\ req # NoRequest
    /\ req' = NoRequest
    /\ resp' = NoResponse
    /\ dbOps' = <<>>
    /\ UNCHANGED <<env, ALLOWED_ORIGINS, cors, assets, widgets, db>>
    /\ UNCHANGED lifecycle

Next ==
    \/ \E name \in ToolNames \cup OtherNames :
          \E rawArgs \in {Args(o) : o \in ArgsFor(name)} \cup {NoArgs} :
             CallTool(name, rawArgs)
    \/ \E uri \in Uris : ReadResource(uri)
    \/ ListTools
    \/ ListResources
    \/ ListResourceTemplates
    \/ Close

Spec == Init /\ [][Next]_vars

-----------------------------------------------------------------------------
(* The origin check alone: the CORS middleware runs corsOptions.origin on  *)
(* the Origin header of each request.                                      *)

InitOrigin == \E e \in Environments : InitWith(e, ExactAssets)

CorsOrigin(origin) ==
    /\ ~cors.checked
    /\ cors' = corsOriginCallback(origin)
    /\ UNCHANGED <<env, ALLOWED_ORIGINS, assets, widgets, db, req, resp, dbOps>>
    /\ UNCHANGED lifecycle

\* the request is over
CorsDone ==
    /\ cors.checked
    /\ cors' = NoCors
    /\ UNCHANGED <<env, ALLOWED_ORIGINS, assets, widgets, db, req, resp, dbOps>>
    /\ UNCHANGED lifecycle

NextOrigin ==
    \/ \E origin \in OriginHeaders : CorsOrigin(origin)
    \/ CorsDone

SpecOrigin == InitOrigin /\ [][NextOrigin]_vars

-----------------------------------------------------------------------------
(* The HTTP front door: requests on /mcp come in concurrently; each is     *)
(* taken through CORS and its route, handled, answered and closed.         *)

InitHttp == \E dir \in HttpAssetDirs : InitWith(DefaultEnvironment, dir)

\* A request comes in: cors(corsOptions) runs the origin callback and sets the
\* headers, then the route runs up to its first await: createHRServer(),
\* new StreamableHTTPServerTransport(...), res.on("close", ...).  When
\* createHRServer() throws, the catch of the route answers.
Receive(r, method, origin, body) ==
    /\ exchanges[r].pc = "idle"
    /\ \A q \in Exchanges : q < r => exchanges[q].pc # "idle"
    /\ \E cb \in {corsOriginCallback(origin)},
          server \in {createHRServer(widgets, assets, env)} :
          /\ widgets' = server.widgets
          /\ fsReads' = countReads(fsReads, widgets, assets, env)
          /\ IF server.threw
             THEN /\ exchanges' = [exchanges EXCEPT ![r] =
                        [pc |-> "responded", method |-> method, origin |-> origin,
                         body |-> body, headers |-> corsHeaders(origin, cb),
                         response |-> CatchResponse(method),
                         logged |-> {HandlingError(method)} \cup
                                    (IF cb.warned THEN {BlockedOriginWarning(origin)}
                                     ELSE {}),
                         server |-> 0, transport |-> 0, handled |-> FALSE]]
                  /\ UNCHANGED <<servers, transports>>
             ELSE \E s \in {newServer(servers)}, t \in {newTransport(transports)} :
                  /\ servers' = WithInstance(servers, s, r)
                  /\ transports' = WithInstance(transports, t, r)
                  /\ exchanges' = [exchanges EXCEPT ![r] =
                        [pc |-> "dispatching", method |-> method, origin |-> origin,
                         body |-> body, headers |-> corsHeaders(origin, cb),
                         response |-> [kind |-> "none"],
                         logged |-> IF cb.warned THEN {BlockedOriginWarning(origin)}
                                    ELSE {},
                         server |-> s, transport |-> t, handled |-> FALSE]]
    /\ UNCHANGED <<env, ALLOWED_ORIGINS, cors, assets, db, req, resp, dbOps, calls>>

\* `await server.connect(transport); await transport.handleRequest(req, res, ...)`:
\* for a POST the handler of the body's method runs and its result is written to
\* the response, if the exchange is still open; a GET or a DELETE is answered by
\* the transport.
HandleRequest(r) ==
    /\ exchanges[r].pc \in {"dispatching", "aborted"}
    /\ ~exchanges[r].handled
    /\ \E x \in {exchanges[r]} :
          /\ servers' = noteHandled(servers, x.server, r)
          /\ transports' = noteHandled(transports, x.transport, r)
          /\ \E out \in {IF x.method = "POST"
                         THEN handleMessage(widgets, db, x.body)
                         ELSE [db |-> db, ops |-> <<>>,
                               resp |-> TransportAnswer(x.method)]} :
                /\ db' = out.db
                /\ exchanges' =
                      IF x.pc = "dispatching" /\ ~transports[x.transport].closed
                      THEN [exchanges EXCEPT ![r].handled = TRUE,
                                             ![r].pc = "responded",
                                             ![r].response = out.resp]
                      ELSE [exchanges EXCEPT
                               ![r] = Over([x EXCEPT !.handled = TRUE], x.pc)]
    /\ UNCHANGED <<env, ALLOWED_ORIGINS, cors, assets, widgets, req, resp, dbOps,
                   fsReads, calls>>

\* connect or handleRequest rejects: the catch of the route logs the error and,
\* as no header was sent, answers 500 (POST) or 405 (GET, DELETE)
HandleThrows(r) ==
    /\ exchanges[r].pc \in {"dispatching", "aborted"}
    /\ ~exchanges[r].handled
    /\ \E x \in {exchanges[r]} :
          /\ servers' = noteHandled(servers, x.server, r)
          /\ transports' = noteHandled(transports, x.transport, r)
          /\ exchanges' =
                IF x.pc = "dispatching" /\ ~transports[x.transport].closed
                THEN [exchanges EXCEPT ![r].handled = TRUE,
                                       ![r].pc = "responded",
                                       ![r].response = CatchResponse(x.method),
                                       ![r].logged = @ \cup {HandlingError(x.method)}]
                ELSE [exchanges EXCEPT
                         ![r] = Over([x EXCEPT !.handled = TRUE], x.pc)]
    /\ UNCHANGED <<env, ALLOWED_ORIGINS, cors, assets, widgets, db, req, resp, dbOps,
                   fsReads, calls>>

\* the client goes away before a response was produced: res emits "close" and
\* the listener of the route closes the transport and the server
Disconnect(r) ==
    /\ exchanges[r].pc = "dispatching"
    /\ transports' = closeInstance(transports, exchanges[r].transport)
    /\ servers' = closeInstance(servers, exchanges[r].server)
    /\ exchanges' = [exchanges EXCEPT ![r].pc = "aborted"]
    /\ UNCHANGED <<env, ALLOWED_ORIGINS, cors, assets, widgets, db, req, resp, dbOps,
                   fsReads, calls>>

\* the response was sent: res emits "close"; the listener, if the route got as
\* far as registering it, closes the transport and the server
ResClose(r) ==
    /\ exchanges[r].pc = "responded"
    /\ IF exchanges[r].server # 0
       THEN /\ transports' = closeInstance(transports, exchanges[r].transport)
            /\ servers' = closeInstance(servers, exchanges[r].server)
       ELSE UNCHANGED <<servers, transports>>
    /\ exchanges' = [exchanges EXCEPT ![r] = Over(exchanges[r], "closed")]
    /\ UNCHANGED <<env, ALLOWED_ORIGINS, cors, assets, widgets, db, req, resp, dbOps,
                   fsReads, calls>>

NextHttp ==
    \/ \E r \in Exchanges, origin \in HttpOrigins :
          \/ \E body \in HttpBodies : Receive(r, "POST", origin, body)
          \/ \E method \in HttpMethods \ {"POST"} :
                Receive(r, method, origin, [kind |-> "none"])
    \/ \E r \in Exchanges : HandleRequest(r)
    \/ \E r \in Exchanges : HandleThrows(r)
    \/ \E r \in Exchanges : Disconnect(r)
    \/ \E r \in Exchanges : ResClose(r)

SpecHttp == InitHttp /\ [][NextHttp]_vars

\* The front door under requests that carry no Origin header (the origin has
\* no part in how a request ends).
NextHttpFair ==
    \/ \E r \in Exchanges :
          \/ \E body \in HttpBodies : Receive(r, "POST", NoOrigin, body)
          \/ \E method \in HttpMethods \ {"POST"} :
                Receive(r, method, NoOrigin, [kind |-> "none"])
    \/ \E r \in Exchanges : HandleRequest(r)
    \/ \E r \in Exchanges : HandleThrows(r)
    \/ \E r \in Exchanges : Disconnect(r)
    \/ \E r \in Exchanges : ResClose(r)

\* The event loop runs every pending continuation and emits "close" on every
\* response that was sent: a request that is being handled is handled to its
\* end (or throws), and a response that was sent is closed.
SpecHttpFair ==
    /\ InitHttp
    /\ [][NextHttpFair]_vars
    /\ \A r \in Exchanges :
          WF_vars(ResClose(r) \/ HandleThrows(r) \/ HandleRequest(r))

-----------------------------------------------------------------------------
(* Properties of the tool dispatcher (specification Spec).                 *)

\* the server the current request is handled by
Server == createHRServer(widgets, assets, env)

\* the descriptors list-tools publishes under a name (none: not registered)
Descriptors(name) ==
    {t \in {Server.tools[i] : i \in DOMAIN Server.tools} : t.name = name}

\* the arguments object the handler of a tools/call request works on
ArgumentsOf(request) ==
    IF request.arguments.present THEN request.arguments.obj ELSE EmptyObject

\* a JSON value is of the type a published input schema gives a property
JsonIs(type, v) ==
    CASE type = "string"   -> v.t = "string"
      [] type = "number"   -> v.t = "number"
      [] type = "boolean"  -> v.t = "boolean"
      [] type = "string[]" -> v.t = "array" /\ \A i \in DOMAIN v.a : v.a[i].t = "string"
      [] OTHER             -> FALSE

\* no required field is missing and no declared field has the wrong type
Conforms(schema, args) ==
    /\ \A k \in schema.required : Has(args, k)
    /\ \A p \in schema.properties : Has(args, p.key) => JsonIs(p.type, args[p.key])

\* a record the call asks for, or a target it is to change, is not in the tables
MissingRecord(name, args, tables) ==
    LET noConsultant(id) == id \notin DOMAIN tables.consultants
        noProject(id)    == id \notin DOMAIN tables.projects
    IN  CASE name \in {"show-consultant-profile", "update-consultant"} ->
                noConsultant(args.consultantId.s)
          [] name = "show-project-details" -> noProject(args.projectId.s)
          [] name = "assign-consultant-to-project" ->
                noProject(args.projectId.s) \/ noConsultant(args.consultantId.s)
          [] name = "bulk-update-consultants" ->
                \E i \in DOMAIN args.consultantIds.a : noConsultant(args.consultantIds.a[i].s)
          [] name = "bulk-assign-consultants" ->
                \/ noProject(args.projectId.s)
                \/ \E i \in DOMAIN args.consultantIds.a :
                        noConsultant(args.consultantIds.a[i].s)
          [] name = "remove-assignment" ->
                (args.projectId.s \o "," \o args.consultantId.s)
                    \notin DOMAIN tables.assignments
          [] OTHER -> FALSE

(* C1: for every tool that list-tools publishes with widget metadata, every
   successful call-tool response (a result whose isError is not set) carries
   _meta with the outputTemplate, invoking and invoked values of the tool's
   descriptor; for every tool published without widget metadata, a successful
   response carries no _meta. *)
C1_SuccessCarriesBinding ==
    (req.kind = "tools/call" /\ resp.kind = "result" /\ ~resp.isError) =>
        \A t \in Descriptors(req.name) :
            IF t._meta.present
            THEN /\ resp._meta.present
                 /\ resp._meta.outputTemplate = t._meta.outputTemplate
                 /\ resp._meta.invoking = t._meta.invoking
                 /\ resp._meta.invoked = t._meta.invoked
            ELSE ~resp._meta.present

\* a successful show-project-details call answered with the dashboard's metadata
C1_Witness ==
    /\ req.kind = "tools/call" /\ req.name = "show-project-details"
    /\ resp.kind = "result" /\ ~resp.isError
    /\ resp._meta.present
    /\ resp._meta.outputTemplate = "ui://widget/hr-dashboard.html"

(* C2 (as claimed): for every call-tool response a registered tool produces,
   responses with isError set included, _meta is present if and only if the
   tool's descriptor carries widget metadata.  The not-found responses of
   show-consultant-profile and show-project-details carry no _meta. *)
C2_MetaIffBinding ==
    (req.kind = "tools/call" /\ resp.kind = "result") =>
        \A t \in Descriptors(req.name) : resp._meta.present <=> t._meta.present

(* C3: a call-tool whose name no published tool has is answered with a result
   whose isError is set and whose text is "Unknown tool: " followed by the name;
   the handler does not throw, no HTTP error is produced, and no table
   operation is issued (the tables are as they were).  The case is a request
   handled by a server that createHRServer could build. *)
C3_UnknownToolReported ==
    [][ (req.kind = "none" /\ req'.kind = "tools/call" /\ ~Server.threw
            /\ Descriptors(req'.name) = {})
        => /\ resp'.kind = "result"
           /\ resp'.isError
           /\ resp'.text = "Unknown tool: " \o req'.name
           /\ dbOps' = <<>>
           /\ db' = db ]_vars

\* an unregistered name answered with the reported condition
C3_Witness ==
    /\ req.kind = "tools/call" /\ req.name = "delete-consultant"
    /\ resp.kind = "result" /\ resp.isError
    /\ resp.text = "Unknown tool: delete-consultant"

(* C4: a read-resource whose uri no registered resource has is answered with
   empty contents and an error marker in _meta, never with a throw or an HTTP
   error; a read-resource of a registered uri is answered with exactly one
   content item, which carries the html cached for the widget of that uri.
   The case is a request handled by a server that createHRServer could build. *)
C4_ReadResourceAnswers ==
    (req.kind = "resources/read" /\ ~Server.threw) =>
        LET registered == {r \in {Server.resources[i] : i \in DOMAIN Server.resources} :
                              r.uri = req.uri}
            cached     == {w \in {getWidgets(widgets)[i] : i \in DOMAIN getWidgets(widgets)} :
                              w.templateUri = req.uri}
        IN  /\ resp.kind = "result"
            /\ IF registered = {}
               THEN resp.contents = <<>> /\ resp._meta.present /\ resp._meta.error # ""
               ELSE /\ Len(resp.contents) = 1
                    /\ resp.contents[1].uri = req.uri
                    /\ \E w \in cached : resp.contents[1].text = w.html

\* an unregistered uri answered with empty contents and the marker
C4_Witness ==
    /\ req.kind = "resources/read" /\ req.uri = "ui://widget/unknown.html"
    /\ resp.kind = "result" /\ resp.contents = <<>>
    /\ resp._meta.present
    /\ resp._meta.error = "Unknown resource: ui://widget/unknown.html"

(* C5: for every registered tool, a call-tool whose arguments miss a required
   field of the tool's input schema, or give a declared field a value of the
   wrong type, ends in a validation throw with no table operation issued and
   the tables as they were; a call whose arguments conform reaches the handler,
   which answers with a result. *)
C5_ValidationBeforeHandler ==
    [][ (req.kind = "none" /\ req'.kind = "tools/call" /\ ~Server.threw)
        => \A t \in Descriptors(req'.name) :
              IF Conforms(t.inputSchema, ArgumentsOf(req'))
              THEN resp'.kind = "result"
              ELSE /\ resp' = Threw("ZodError")
                   /\ dbOps' = <<>>
                   /\ db' = db ]_vars

\* update-consultant with a name of the wrong type: rejected, no table touched
C5_Witness ==
    /\ req.kind = "tools/call" /\ req.name = "update-consultant"
    /\ req.arguments.present
    /\ Has(req.arguments.obj, "consultantId") /\ req.arguments.obj.consultantId.t = "string"
    /\ Has(req.arguments.obj, "name") /\ req.arguments.obj.name.t = "number"
    /\ resp = Threw("ZodError")
    /\ dbOps = <<>>

(* C6 (as claimed): whenever a handler runs and a record it is asked for, or a
   target it is to change, does not exist (consultant, project or assignment,
   single and bulk tools alike), the call is answered with a result whose
   isError is set and whose text is not empty, never with a throw or an HTTP
   error.  The bulk tools answer a missing consultant without isError. *)
C6_DomainFailureFlagged ==
    [][ (req.kind = "none" /\ req'.kind = "tools/call" /\ ~Server.threw)
        => \A t \in Descriptors(req'.name) :
              (/\ Conforms(t.inputSchema, ArgumentsOf(req'))
               /\ MissingRecord(req'.name, ArgumentsOf(req'), db))
              => /\ resp'.kind = "result"
                 /\ resp'.isError
                 /\ resp'.text # "" ]_vars

-----------------------------------------------------------------------------
(* Properties of the origin check (specification SpecOrigin).              *)

\* the origin check ran on an Origin header that is present and not "null"
OriginChecked ==
    cors.checked /\ cors.origin.present /\ cors.origin.value \notin {"", "null"}

AllowListEntries == {ALLOWED_ORIGINS[i] : i \in DOMAIN ALLOWED_ORIGINS}

\* the rules of the allow-list, entry by entry
SchemePrefixRule(e, o) == EndsWith(e, "://") /\ StartsWith(o, e)

LocalhostRule(e, o) ==
    /\ e \in {"http://localhost", "https://localhost", "http://127.0.0.1",
              "https://127.0.0.1"}
    /\ StartsWith(o, e)

\* the hostname of the origin is D or ends with ".D", for the entry e = ".D";
\* u is the origin as a URL
DotWildcardRule(e, u) ==
    /\ StartsWith(e, ".")
    /\ u.ok
    /\ u.hostname = Slice(e, 1) \/ EndsWith(u.hostname, e)

\* the Origin header of the request as a URL
OriginURL == ParseURL(cors.origin.value)

(* C7: for a dot-wildcard entry ".D" of the allow-list, an origin whose
   hostname is D or ends with ".D" is allowed, and with the allow-list [".D"]
   an origin is allowed exactly when its hostname is D or ends with ".D".
   Entry ".example.com" allows https://example.com and https://sub.example.com
   and denies https://notexample.com; allow-list [".chatgpt.com"] allows
   https://chat.chatgpt.com and denies https://chatgpt.com.evil.net. *)
C7_DotWildcard ==
    /\ OriginChecked =>
          \A u \in {OriginURL} :
             \A e \in {x \in AllowListEntries : StartsWith(x, ".")} :
                /\ DotWildcardRule(e, u) => cors.allowed
                /\ isOriginAllowedIn(<<e>>, cors.origin) <=> DotWildcardRule(e, u)
    /\ isOriginAllowedIn(<<".example.com">>, OriginOf("https://example.com"))
    /\ isOriginAllowedIn(<<".example.com">>, OriginOf("https://sub.example.com"))
    /\ ~isOriginAllowedIn(<<".example.com">>, OriginOf("https://notexample.com"))
    /\ isOriginAllowedIn(<<".chatgpt.com">>, OriginOf("https://chat.chatgpt.com"))
    /\ ~isOriginAllowedIn(<<".chatgpt.com">>, OriginOf("https://chatgpt.com.evil.net"))

\* a subdomain allowed under the entry ".example.com" of the environment
C7_Witness ==
    /\ cors.checked /\ cors.origin = OriginOf("https://sub.example.com")
    /\ ".example.com" \in AllowListEntries
    /\ cors.allowed

(* C8: a missing origin (no header, or the empty string) and the literal
   origin "null" are allowed whatever the allow-list holds, the empty
   allow-list included. *)
C8_MissingOrNullAllowed ==
    (cors.checked /\ (~cors.origin.present \/ cors.origin.value \in {"", "null"})) =>
        /\ cors.allowed
        /\ isOriginAllowedIn(<<>>, cors.origin)

\* the literal "null" checked and allowed
C8_Witness == cors.checked /\ cors.origin = OriginOf("null") /\ cors.allowed

(* C9: for an entry of the allow-list that ends in "://", every origin that
   starts with the entry is allowed, and with that entry alone as the
   allow-list an origin is allowed exactly when it starts with the entry. *)
C9_SchemePrefix ==
    OriginChecked =>
        \A e \in {x \in AllowListEntries : EndsWith(x, "://")} :
           /\ StartsWith(cors.origin.value, e) => cors.allowed
           /\ isOriginAllowedIn(<<e>>, cors.origin) <=> StartsWith(cors.origin.value, e)

\* an origin allowed under the entry "myapp://" of the environment
C9_Witness ==
    /\ cors.checked /\ cors.origin = OriginOf("myapp://host")
    /\ "myapp://" \in AllowListEntries
    /\ cors.allowed

(* C10 (as claimed): an origin that is present, is not "null" and matches no
   entry under the scheme-prefix, localhost, dot-wildcard or exact-equality
   rules is denied; and every origin that is string-equal to some entry of the
   allow-list is allowed. *)
C10_DenyUnlessMatched ==
    OriginChecked =>
        \A u \in {OriginURL} :
           /\ (~\E e \in AllowListEntries :
                  \/ SchemePrefixRule(e, cors.origin.value)
                  \/ LocalhostRule(e, cors.origin.value)
                  \/ DotWildcardRule(e, u)
                  \/ cors.origin.value = e) => ~cors.allowed
           /\ (\E e \in AllowListEntries : cors.origin.value = e) => cors.allowed

(* C10 (amended): an origin that is present, is not "null" and matches no
   entry under the scheme-prefix, localhost or dot-wildcard rules, and is
   string-equal to no entry that does not start with ".", is denied; and every
   origin that is string-equal to some entry that does not start with "." is
   allowed. *)
C10_DenyUnlessMatchedNoDotExact ==
    OriginChecked =>
        \A u \in {OriginURL} :
           /\ (~\E e \in AllowListEntries :
                  \/ SchemePrefixRule(e, cors.origin.value)
                  \/ LocalhostRule(e, cors.origin.value)
                  \/ DotWildcardRule(e, u)
                  \/ (~StartsWith(e, ".") /\ cors.origin.value = e)) => ~cors.allowed
           /\ (\E e \in AllowListEntries : ~StartsWith(e, ".") /\ cors.origin.value = e)
                 => cors.allowed

\* an origin equal to an exact entry of the environment allowed, by that rule alone
C10_Witness ==
    /\ cors.checked /\ cors.origin = OriginOf("https://exact.test")
    /\ "https://exact.test" \in AllowListEntries
    /\ cors.allowed

(* C11: isOriginAllowed is total and deterministic.  Whatever the Origin
   header of a request is, a URL or not, the call answers TRUE or FALSE; it
   leaves ALLOWED_ORIGINS as buildAllowedOrigins() made it at startup; and
   the same call made again, in the state the first call left, gives the
   answer the first call gave. *)
C11_TotalDeterministic ==
    cors.checked =>
        /\ cors.allowed \in BOOLEAN
        /\ ALLOWED_ORIGINS = buildAllowedOrigins(env)
        /\ isOriginAllowed(cors.origin) = cors.allowed

\* the check answered for an Origin header that new URL() rejects
C11_Witness ==
    /\ cors.checked /\ cors.origin.present
    /\ cors.origin.value \in {"myapp:host", "example.com", ".evil.net"}
    /\ ~ParseURL(cors.origin.value).ok
    /\ ~cors.allowed

-----------------------------------------------------------------------------
(* Properties of the HTTP front door (specification SpecHttp).             *)

\* the exchanges that have come in
Received == {r \in Exchanges : exchanges[r].pc # "idle"}

\* the allow-list of the deployment the front door runs in
HttpAllowList == buildAllowedOrigins(DefaultEnvironment)

\* the Origin headers Origin Access Control denies under that allow-list
HttpDeniedOrigins == {o \in HttpOrigins : ~isOriginAllowedIn(HttpAllowList, o)}

\* Origin Access Control denies the Origin header of exchange r
OriginDenied(r) ==
    ALLOWED_ORIGINS = HttpAllowList /\ exchanges[r].origin \in HttpDeniedOrigins

(* C12: the response of a request carries Access-Control-Allow-Origin only
   when Origin Access Control permits the request's origin, and then its value
   is that origin; the response to a denied origin carries no
   Access-Control-Allow-Origin; no response carries
   Access-Control-Allow-Credentials. *)
C12_ReflectOnlyAllowed ==
    /\ ALLOWED_ORIGINS = HttpAllowList
    /\ \A r \in Received :
          \E x \in {exchanges[r]} :
             /\ x.headers.allowOrigin.present =>
                   /\ x.origin \in HttpOrigins \ HttpDeniedOrigins
                   /\ x.origin.present
                   /\ x.headers.allowOrigin.value = x.origin.value
             /\ OriginDenied(r) => ~x.headers.allowOrigin.present
             /\ ~x.headers.allowCredentials.present

\* one response reflects an allowed origin while another, to a denied origin,
\* has no Access-Control-Allow-Origin
C12_Witness ==
    \E r, q \in Received :
       /\ exchanges[r].pc = "responded" /\ OriginDenied(r)
       /\ ~exchanges[r].headers.allowOrigin.present
       /\ exchanges[q].pc = "responded"
       /\ exchanges[q].origin \in HttpOrigins \ HttpDeniedOrigins
       /\ exchanges[q].headers.allowOrigin = Header("https://chat.chatgpt.com")

\* Origin Access Control denies the Origin header of the exchange record x
DeniedIn(x) == ALLOWED_ORIGINS = HttpAllowList /\ x.origin \in HttpDeniedOrigins

(* C13: a request whose origin Origin Access Control denies gets no response
   body -- no tool result, no resource markup, no catalog is written to its
   response -- and the rejection is logged with console.warn. *)
C13_NoBodyForDeniedOrigin ==
    \A r \in Received :
       OriginDenied(r) =>
          /\ exchanges[r].response.kind # "result"
          /\ BlockedOriginWarning(exchanges[r].origin) \in exchanges[r].logged

(* C14: origin validation precedes dispatch.  A step of a request whose
   origin is denied constructs no server, runs no handler and leaves the
   tables as they are. *)
C14_DeniedOriginNoDispatch ==
    [][\A r \in Exchanges :
          (exchanges'[r] # exchanges[r]
              /\ (DeniedIn(exchanges[r]) \/ DeniedIn(exchanges'[r])))
          => /\ db' = db
             /\ exchanges'[r].server = 0
             /\ ~exchanges'[r].handled]_vars

\* the exchanges whose route made a server and a transport
Serving == {r \in Exchanges : exchanges[r].server # 0}

\* the deployments in which createHRServer() throws: a widget file is missing
BrokenAssetDirs ==
    {dir \in HttpAssetDirs : createHRServer(NoWidgets, dir, DefaultEnvironment).threw}

\* every request has a server and a transport of its own, made for it, that
\* handled no other request
OwnInstances ==
    /\ \A r \in Received : exchanges[r].server = 0 => assets \in BrokenAssetDirs
    /\ \A r \in Serving :
          /\ exchanges[r].server \in DOMAIN servers
          /\ exchanges[r].transport \in DOMAIN transports
          /\ servers[exchanges[r].server].owner = r
          /\ transports[exchanges[r].transport].owner = r
    /\ \A r, q \in Serving :
          r # q => /\ exchanges[r].server # exchanges[q].server
                   /\ exchanges[r].transport # exchanges[q].transport
    /\ \A i \in DOMAIN servers : servers[i].handled \subseteq {servers[i].owner}
    /\ \A i \in DOMAIN transports :
          transports[i].handled \subseteq {transports[i].owner}

\* a step changes one exchange at most, and the instances of that exchange only
OwnStep ==
    /\ \A r, q \in Exchanges :
          r # q => exchanges'[r] = exchanges[r] \/ exchanges'[q] = exchanges[q]
    /\ \A i \in DOMAIN servers :
          servers'[i] # servers[i] =>
             \A q \in Exchanges \ {servers[i].owner} : exchanges'[q] = exchanges[q]
    /\ \A i \in DOMAIN transports :
          transports'[i] # transports[i] =>
             \A q \in Exchanges \ {transports[i].owner} : exchanges'[q] = exchanges[q]

(* C15: every request on /mcp, POST, GET or DELETE, for which
   createHRServer() returns gets a server and a transport made for it alone;
   no server and no transport handles more than one request; and a step of
   one request changes neither another request nor another request's
   instances. *)
C15_FreshInstances == [][OwnInstances' /\ OwnStep]_vars

\* a GET and a POST in flight at once, each with a server and a transport of
\* its own, one of them answered
C15_Witness ==
    \E r, q \in Serving :
       /\ exchanges[r].method = "GET" /\ exchanges[r].pc = "dispatching"
       /\ exchanges[q].method = "POST" /\ exchanges[q].pc = "responded"
       /\ exchanges[q].response.kind = "result"
       /\ exchanges[r].server # exchanges[q].server
       /\ exchanges[r].transport # exchanges[q].transport
       /\ servers[exchanges[q].server].handled = {q}

\* transport.close() and server.close() were called for exchange r
Released(r) ==
    /\ exchanges[r].server # 0
    /\ servers[exchanges[r].server].closed
    /\ transports[exchanges[r].transport].closed

(* C16: every request for which a server and a transport were constructed
   eventually has both closed, whether its response was sent, its client went
   away before a response, or connecting or handling threw. *)
C16_EventuallyReleased ==
    \A r \in Exchanges : [](exchanges[r].server # 0 => <>Released(r))

\* one request released after its client went away, another after its
\* response was sent
C16_Witness ==
    \E r, q \in Serving :
       /\ exchanges[r].pc = "aborted" /\ Released(r)
       /\ exchanges[q].pc = "closed" /\ Released(q)

(* C17: when the client of one request goes away, the transport and the
   server of that request are closed and nothing else changes: the other
   requests, their servers and transports (which stay open, so that they are
   still answered), the widgets loaded so far and the origin allow-list are as
   they were. *)
C17_DisconnectIsLocal ==
    [][\A r \in Exchanges :
          (exchanges[r].pc = "dispatching" /\ exchanges'[r].pc = "aborted") =>
             /\ servers'[exchanges[r].server].closed
             /\ transports'[exchanges[r].transport].closed
             /\ \A q \in Exchanges \ {r} :
                   /\ exchanges'[q] = exchanges[q]
                   /\ exchanges[q].pc = "dispatching" =>
                         /\ ~servers'[exchanges[q].server].closed
                         /\ ~transports'[exchanges[q].transport].closed
             /\ \A i \in DOMAIN servers \ {exchanges[r].server} :
                   servers'[i] = servers[i]
             /\ \A i \in DOMAIN transports \ {exchanges[r].transport} :
                   transports'[i] = transports[i]
             /\ widgets' = widgets
             /\ ALLOWED_ORIGINS' = ALLOWED_ORIGINS]_vars

\* one client went away; the other request, in flight at that time or later,
\* has its result and its instances are open
C17_Witness ==
    \E r, q \in Serving :
       /\ exchanges[r].pc = "aborted" /\ Released(r)
       /\ exchanges[q].pc = "responded" /\ exchanges[q].response.kind = "result"
       /\ ~servers[exchanges[q].server].closed
       /\ ~transports[exchanges[q].transport].closed

(* C18: over any sequence of requests in one process, requests whose widget
   loading fails included, the markup file of each widget is read
   (fs.readFileSync) at most once. *)
C18_ReadAtMostOnce == \A c \in ComponentNames : fsReads[c] <= 1

\* a request found a widget file missing: createHRServer() threw in its route
HitMissingArtifact(x) ==
    assets \in BrokenAssetDirs /\ x.pc \notin {"idle"} /\ x.server = 0

(* C19: when the markup file of a widget is missing, the first access to the
   widgets stops the process: the request that makes it is not answered with
   an error response of its own, and no request is accepted after it. *)
C19_MissingArtifactIsFatal ==
    [][\A r \in Exchanges :
          /\ HitMissingArtifact(exchanges'[r]) => exchanges'[r].response.kind = "none"
          /\ (\E q \in Exchanges : HitMissingArtifact(exchanges[q])) =>
                (exchanges[r].pc = "idle" => exchanges'[r].pc = "idle")]_vars

-----------------------------------------------------------------------------
(* Properties of the catalog (specification Spec).                         *)

\* uri is the uri of a listed resource that read-resource answers with markup
Bound(server, listed, uri) ==
    /\ uri \in listed
    /\ \E answer \in {readResource(server, uri)} :
          /\ Len(answer.contents) = 1
          /\ answer.contents[1].uri = uri
          /\ answer.contents[1].text # ""

(* C20: resources and widgets are one to one and the bindings are closed.
   list-resources returns one resource per widget, under uris that are all
   different; and the outputTemplate of every tool descriptor that has widget
   metadata, and of every call-tool response that has it, is the uri of a
   listed resource for which read-resource returns the markup. *)
C20_BindingsClosed ==
    \A server \in {Server} :
       ~server.threw =>
          \E listed \in {{server.resources[i].uri : i \in DOMAIN server.resources}} :
             /\ Len(server.resources) = Len(getWidgets(server.widgets))
             /\ Cardinality(listed) = Len(server.resources)
             /\ \A i \in DOMAIN server.resources :
                   server.resources[i].uri = getWidgets(server.widgets)[i].templateUri
             /\ req.kind = "resources/list" =>
                   resp.kind = "result" /\ resp.resources = server.resources
             /\ req.kind = "tools/list" =>
                   resp.kind = "result" /\ resp.tools = server.tools
             /\ \A i \in DOMAIN server.tools :
                   server.tools[i]._meta.present =>
                      Bound(server, listed, server.tools[i]._meta.outputTemplate)
             /\ (req.kind = "tools/call" /\ resp.kind = "result" /\ resp._meta.present)
                   => Bound(server, listed, resp._meta.outputTemplate)

\* search-consultants answered with the metadata of the bulk editor, whose
\* resource is listed and served from a hashed file
C20_Witness ==
    /\ assets = HashedAssets
    /\ req.kind = "tools/call" /\ req.name = "search-consultants"
    /\ resp.kind = "result" /\ resp._meta.present
    /\ resp._meta.outputTemplate = "ui://widget/bulk-editor.html"
    /\ \E i \in DOMAIN Server.resources :
          Server.resources[i].uri = "ui://widget/bulk-editor.html"

-----------------------------------------------------------------------------
(* The once-loaded widget registry.                                        *)

Loaded(w) == {i \in DOMAIN getWidgets(w) : getWidgets(w)[i].defined}

\* C21: at the start of handling any request (no request is being handled),
\* either every widget of the registry is loaded with its markup or none is;
\* a failed load of one widget leaves no widget behind.
C21_RegistryAllOrNothing ==
    req = NoRequest => Loaded(widgets) \in {{}, DOMAIN getWidgets(widgets)}

-----------------------------------------------------------------------------
(* update-consultant and bulk-update-consultants, await by await           *)
(* (specification SpecSteps): concurrent requests each run their handler;  *)
(* the handlers interleave at the awaits of db.updateConsultant.           *)

StepCalls ==
    { [name |-> "update-consultant",
       arguments |-> Compact([consultantId |-> JStr("1"), name |-> JStr("Zed")])],
      [name |-> "update-consultant",
       arguments |-> Compact([consultantId |-> JStr("1"),
                              email |-> JStr("zed@treyresearch.com")])],
      [name |-> "update-consultant",
       arguments |-> Compact([consultantId |-> JStr("9"), name |-> JStr("Zed")])],
      [name |-> "update-consultant",
       arguments |-> Compact([consultantId |-> JNum(1), name |-> JStr("Zed")])],
      [name |-> "bulk-update-consultants",
       arguments |-> Compact([consultantIds |-> JArr(<<JStr("1"), JStr("2")>>),
                              phone |-> JStr("555-0199")])] }

\* `const { consultantId, ...updates } = updateParser.parse(args)` and
\* `const { consultantIds, ...changes } = bulkUpdateParser.parse(args)`:
\* the handler up to its first await, or its throw of the ZodError
enterHandler(name, args) ==
    IF name = "update-consultant"
    THEN IF ~zAccepts(updateParser, args)
         THEN [NoCall EXCEPT !.pc = "threw", !.name = name]
         ELSE [NoCall EXCEPT
                  !.pc = "get", !.name = name,
                  !.ids = <<zData(updateParser, args).consultantId.s>>,
                  !.updates = Without(zData(updateParser, args), "consultantId")]
    ELSE IF ~zAccepts(bulkUpdateParser, args)
         THEN [NoCall EXCEPT !.pc = "threw", !.name = name]
         ELSE [NoCall EXCEPT
                  !.pc = IF zData(bulkUpdateParser, args).consultantIds.a = <<>>
                         THEN "return" ELSE "get",
                  !.name = name,
                  !.ids = StringsOf(zData(bulkUpdateParser, args).consultantIds.a),
                  !.updates = Without(zData(bulkUpdateParser, args), "consultantIds")]

\* updateConsultant returned `updated` for the head of ids: the handler pushes
\* its line and goes to the next id of the loop, or to its return
pushResult(call, updated) ==
    [call EXCEPT
        !.results = Append(@, [consultantId |-> Head(call.ids),
                               found |-> updated.found,
                               name |-> IF updated.found THEN updated.name ELSE ""]),
        !.ids = Tail(@),
        !.existing = NullEntity,
        !.pc = IF Tail(call.ids) = <<>> THEN "return" ELSE "get"]

InitSteps == InitWith(DefaultEnvironment, ExactAssets)

\* a tools/call of one of the two tools reaches its handler
EnterHandler(c, name, args) ==
    /\ calls[c].pc = "idle"
    /\ \A q \in Calls : q < c => calls[q].pc # "idle"
    /\ calls' = [calls EXCEPT ![c] = enterHandler(name, args)]
    /\ UNCHANGED <<env, ALLOWED_ORIGINS, cors, assets, widgets, db, req, resp, dbOps,
                   exchanges, servers, transports, fsReads>>

\* db.updateConsultant: `const existing = await getConsultantById(id);
\* if (!existing) return null;`
AwaitGetConsultantById(c) ==
    /\ calls[c].pc = "get"
    /\ \E existing \in {getConsultantById(Start(db), Head(calls[c].ids)).result} :
          calls' = [calls EXCEPT ![c] =
                      IF ~existing.found THEN pushResult(calls[c], NullEntity)
                      ELSE [calls[c] EXCEPT !.existing = existing, !.pc = "update"]]
    /\ UNCHANGED <<env, ALLOWED_ORIGINS, cors, assets, widgets, db, req, resp, dbOps,
                   exchanges, servers, transports, fsReads>>

\* db.updateConsultant: the merge of the updates into what was read, and
\* `await consultantsTable.updateEntity({...merged}, "Replace")`
AwaitUpdateEntity(c) ==
    /\ calls[c].pc = "update"
    /\ db' = [db EXCEPT !.consultants[Head(calls[c].ids)] =
                 mergeUpdates(calls[c].existing, calls[c].updates)]
    /\ calls' = [calls EXCEPT ![c].pc = "reread", ![c].writes = @ + 1]
    /\ UNCHANGED <<env, ALLOWED_ORIGINS, cors, assets, widgets, req, resp, dbOps,
                   exchanges, servers, transports, fsReads>>

\* db.updateConsultant: `return getConsultantById(id)`, awaited by the handler
AwaitUpdated(c) ==
    /\ calls[c].pc = "reread"
    /\ calls' = [calls EXCEPT ![c] =
                    pushResult(calls[c],
                               getConsultantById(Start(db), Head(calls[c].ids)).result)]
    /\ UNCHANGED <<env, ALLOWED_ORIGINS, cors, assets, widgets, db, req, resp, dbOps,
                   exchanges, servers, transports, fsReads>>

\* the handler returns its result (or has thrown): the call is over
Return(c) ==
    /\ calls[c].pc \in {"return", "threw"}
    /\ calls' = [calls EXCEPT ![c].pc = "done"]
    /\ UNCHANGED <<env, ALLOWED_ORIGINS, cors, assets, widgets, db, req, resp, dbOps,
                   exchanges, servers, transports, fsReads>>

\* the client of the request goes away while its handler is in flight:
\* res.on("close") runs transport.close() and server.close().  The handler
\* takes only `request`: it holds no signal and has no point of cancellation.
ClientGone(c) ==
    /\ calls[c].pc \in {"get", "update", "reread", "return"}
    /\ ~calls[c].aborted
    /\ calls' = [calls EXCEPT ![c].aborted = TRUE]
    /\ UNCHANGED <<env, ALLOWED_ORIGINS, cors, assets, widgets, db, req, resp, dbOps,
                   exchanges, servers, transports, fsReads>>

NextSteps ==
    \/ \E c \in Calls, call \in StepCalls : EnterHandler(c, call.name, call.arguments)
    \/ \E c \in Calls : AwaitGetConsultantById(c)
    \/ \E c \in Calls : AwaitUpdateEntity(c)
    \/ \E c \in Calls : AwaitUpdated(c)
    \/ \E c \in Calls : Return(c)
    \/ \E c \in Calls : ClientGone(c)

SpecSteps == InitSteps /\ [][NextSteps]_vars

\* C22: once the client of a request has gone away, the handler of that
\* request issues no further write: no step raises the number of updateEntity
\* calls that an aborted call has issued.
C22_NoWriteAfterDisconnect ==
    [][\A c \in Calls : calls[c].aborted => calls'[c].writes = calls[c].writes]_vars

\* a finished update-consultant call that found its consultant
Updated(c) ==
    /\ calls[c].pc = "done"
    /\ calls[c].name = "update-consultant"
    /\ Len(calls[c].results) = 1
    /\ calls[c].results[1].found

\* C29: when two update-consultant calls on the same consultant that change
\* disjoint fields have both completed, the stored record holds the changes of
\* both, whatever the interleaving of their reads and writes.
C29_NoLostUpdate ==
    \A c1, c2 \in Calls :
        ( /\ c1 # c2
          /\ Updated(c1) /\ Updated(c2)
          /\ calls[c1].results[1].consultantId = calls[c2].results[1].consultantId
          /\ (DOMAIN calls[c1].updates) \cap (DOMAIN calls[c2].updates) = {} )
        => \A c \in {c1, c2} :
              \E stored \in {db.consultants[calls[c].results[1].consultantId]} :
                 mergeUpdates(stored, calls[c].updates) = stored

-----------------------------------------------------------------------------
(* Properties of the allow-list as built (specification SpecOrigin).       *)

\* a string that is neither a URL nor a dot-wildcard
MalformedEntry(s) == ~ParseURL(s).ok /\ ~StartsWith(s, ".")

BaseURL == ParseURL(env.SERVER_BASE_URL)

\* C23: for every value of SERVER_BASE_URL and ADDITIONAL_ALLOWED_ORIGINS the
\* allow-list is built and starts with every static entry; a well-formed base
\* URL contributes its origin and the dot-wildcard of its hostname; a malformed
\* URL in either input contributes no entry.
C23_BuildNeverFails ==
    /\ SubSeq(ALLOWED_ORIGINS, 1, Len(STATIC_ALLOWED_ORIGINS)) = STATIC_ALLOWED_ORIGINS
    /\ (env.SERVER_BASE_URL # "" /\ BaseURL.ok)
          => \E i \in DOMAIN ALLOWED_ORIGINS :
                /\ i < Len(ALLOWED_ORIGINS)
                /\ ALLOWED_ORIGINS[i] = BaseURL.origin
                /\ ALLOWED_ORIGINS[i + 1] = "." \o BaseURL.hostname
    /\ \A i \in DOMAIN ALLOWED_ORIGINS : ~MalformedEntry(ALLOWED_ORIGINS[i])

LocalhostEntries ==
    {"http://localhost", "https://localhost", "http://127.0.0.1", "https://127.0.0.1"}

\* the origin names the host localhost or 127.0.0.1 (with any port)
NamesLocalHost(u) == u.ok /\ u.hostname \in {"localhost", "127.0.0.1"}

\* C26: an origin that begins with a localhost entry of the allow-list but
\* names another host is denied unless another entry matches it (by the
\* scheme-prefix or dot-wildcard rule, or as an exact entry).
C26_LocalhostExactHost ==
    OriginChecked =>
        \A u \in {OriginURL} :
           ( /\ \E e \in AllowListEntries \cap LocalhostEntries :
                   StartsWith(cors.origin.value, e)
             /\ ~NamesLocalHost(u)
             /\ ~\E e \in AllowListEntries \ LocalhostEntries :
                    \/ SchemePrefixRule(e, cors.origin.value)
                    \/ DotWildcardRule(e, u)
                    \/ (~StartsWith(e, ".") /\ cors.origin.value = e) )
           => ~cors.allowed

-----------------------------------------------------------------------------
(* readWidgetHtml over asset directories (specification SpecAssets): the   *)
(* files of one component vary, the other two components have their exact  *)
(* artifact.                                                               *)

\* markup without a <head> open tag, and markup that holds "<head>" twice
NoHeadMarkup(body) == "<html><body><title>" \o body \o "</title></body></html>"
TwoHeadsMarkup(body) ==
    "<html><head><title>" \o body \o "</title></head><body><!--<head>--></body></html>"

Content(kind, f) ==
    CASE kind = "markup"   -> Markup(f)
      [] kind = "nohead"   -> NoHeadMarkup(f)
      [] kind = "twoheads" -> TwoHeadsMarkup(f)
      [] OTHER             -> ""

\* the artifacts of one component: file name after the component name |-> content
ArtifactChoices ==
    { [x \in {} |-> ""],
      (".html" :> "markup"),
      ("-9f1c.html" :> "markup"),
      ("-9f1c.html" :> "markup" @@ "-Ab12.html" :> "markup"),
      (".html" :> "markup" @@ "-9f1c.html" :> "markup" @@ "-Ab12.html" :> "markup"),
      (".html" :> "empty"),
      (".html" :> "empty" @@ "-9f1c.html" :> "markup"),
      ("-9f1c.html" :> "markup" @@ "-Ab12.html" :> "empty"),
      (".html" :> "nohead"),
      (".html" :> "twoheads") }

DirWith(c, choice) ==
    [exists |-> TRUE,
     files  |-> [f \in {c \o x : x \in DOMAIN choice}
                          \cup {o \o ".html" : o \in ComponentNames \ {c}} |->
                    IF StartsWith(f, c)
                    THEN Content(choice[CHOOSE x \in DOMAIN choice : f = c \o x], f)
                    ELSE Markup(f)]]

NoAssetsDir == [exists |-> FALSE, files |-> [x \in {} |-> ""]]

ResolutionDirs ==
    {DirWith(c, choice) : c \in ComponentNames, choice \in ArtifactChoices}
        \cup {NoAssetsDir}

AssetEnvironments ==
    {DefaultEnvironment,
     [SERVER_BASE_URL |-> "https://tunnel.example.org/", ADDITIONAL_ALLOWED_ORIGINS |-> ""]}

InitAssets == \E dir \in ResolutionDirs, e \in AssetEnvironments : InitWith(e, dir)

\* one call of readWidgetHtml(componentName), as loadWidgets makes it
ReadWidgetHtml(componentName) ==
    /\ req = NoRequest
    /\ req' = [kind |-> "readWidgetHtml", componentName |-> componentName]
    /\ \E out \in {readWidgetHtml(assets, env, componentName)} :
          resp' = [kind |-> "readWidgetHtml", threw |-> out.threw, html |-> out.html]
    /\ UNCHANGED <<env, ALLOWED_ORIGINS, cors, assets, widgets, db, dbOps>>
    /\ UNCHANGED lifecycle

NextAssets ==
    \/ \E c \in ComponentNames : ReadWidgetHtml(c)
    \/ \E uri \in Uris : ReadResource(uri)
    \/ Close

SpecAssets == InitAssets /\ [][NextAssets]_vars

\* the artifacts of ASSETS_DIR that the lookup order names for a widget id: the
\* exact one if it exists, otherwise the last in order of the "{id}-*" ones
HashedArtifacts(id) ==
    {f \in DOMAIN assets.files : StartsWith(f, id \o "-") /\ EndsWith(f, ".html")}

Resolved(id) ==
    IF ~assets.exists THEN {}
    ELSE IF (id \o ".html") \in DOMAIN assets.files THEN {id \o ".html"}
    ELSE {f \in HashedArtifacts(id) : \A g \in HashedArtifacts(id) \ {f} : StrLess(g, f)}

\* the markup is that of artifact f (every artifact of the model names itself)
IsMarkupOf(html, f) == Includes(html, "<title>" \o f \o "</title>")

WidgetHtmlRead == req.kind = "readWidgetHtml"

(* C24 (as claimed): the exact artifact is used if it exists, otherwise the
   lexicographically last "{id}-*" artifact; resolution fails only if neither
   exists. *)
C24_ResolutionOrder ==
    WidgetHtmlRead =>
        /\ resp.threw <=> Resolved(req.componentName) = {}
        /\ ~resp.threw => \A f \in Resolved(req.componentName) : IsMarkupOf(resp.html, f)

(* C24 (amended): the exact artifact is taken if it exists, otherwise the
   lexicographically last "{id}-*" artifact; resolution fails exactly when
   neither exists or the artifact taken is empty, and otherwise the markup of
   the artifact taken is used. *)
C24_ResolutionOrderNonEmpty ==
    WidgetHtmlRead =>
        /\ resp.threw <=>
              \/ Resolved(req.componentName) = {}
              \/ \E f \in Resolved(req.componentName) : assets.files[f] = ""
        /\ ~resp.threw => \A f \in Resolved(req.componentName) : IsMarkupOf(resp.html, f)

\* two hashed artifacts and no exact one: the last in order is used
C24_Witness ==
    /\ WidgetHtmlRead
    /\ ~resp.threw
    /\ (req.componentName \o ".html") \notin DOMAIN assets.files
    /\ Cardinality(HashedArtifacts(req.componentName)) = 2
    /\ IsMarkupOf(resp.html, req.componentName \o "-Ab12.html")

\* the number of occurrences of sub in s
CountSub(s, sub) ==
    Cardinality({i \in 1..(Len(s) - Len(sub) + 1) : SubSeq(s, i, i + Len(sub) - 1) = sub})

\* the widgets of the registry that are loaded
CachedWidgets ==
    {getWidgets(widgets)[i] : i \in Loaded(widgets)}

\* C25: every cached widget markup carries the server base-URL snippet
\* exactly once, and a read-resource answer carries the cached markup of its
\* widget as it is.
C25_SnippetExactlyOnce ==
    /\ \A widget \in CachedWidgets :
          CountSub(widget.html, "<script>window.__SERVER_BASE_URL__=") = 1
    /\ (req.kind = "resources/read" /\ resp.kind = "result" /\ resp.contents # <<>>)
          => \E widget \in CachedWidgets :
                /\ widget.templateUri = req.uri
                /\ resp.contents[1].text = widget.html

-----------------------------------------------------------------------------
(* The catalog and the dispatcher (specification Spec).                    *)

\* the names list-tools advertises, once the widgets are loaded
ListedNames == {tools(widgets)[i].name : i \in DOMAIN tools(widgets)}

\* the answer of the default case of the switch
IsUnknownTool(response, name) ==
    /\ response.kind = "result"
    /\ response.isError
    /\ response.text = "Unknown tool: " \o name

\* C27: the tool names of list-tools are unique and are exactly the names
\* call-tool dispatches: a call of a listed name is never answered "Unknown
\* tool", a call of any other name always is.
C27_ListedIffDispatched ==
    /\ (req.kind = "tools/list" /\ resp.kind = "result")
          => /\ {resp.tools[i].name : i \in DOMAIN resp.tools} = ListedNames
             /\ Cardinality(ListedNames) = Len(resp.tools)
    /\ (req.kind = "tools/call" /\ resp.kind # "http")
          => (req.name \in ListedNames <=> ~IsUnknownTool(resp, req.name))

\* a listed name dispatched to its handler, which ran on the tables
C27_Witness ==
    /\ req.kind = "tools/call" /\ req.name = "remove-assignment"
    /\ resp.kind = "result" /\ ~resp.isError
    /\ req.name \in ListedNames
    /\ dbOps # <<>>

\* the arguments conform to an advertised schema, its closure flag included:
\* with additionalProperties false no field is undeclared
ConformsClosed(schema, args) ==
    /\ Conforms(schema, args)
    /\ ~schema.additionalProperties
          => DOMAIN args \subseteq {p.key : p \in schema.properties}

\* C28: for every listed tool, a call is rejected with a validation failure
\* (and no table operation) exactly when its arguments do not conform to the
\* advertised inputSchema; arguments with an undeclared field do not conform,
\* every advertised schema being closed.
C28_ValidationIsAdvertisedSchema ==
    (req.kind = "tools/call" /\ resp.kind # "http") =>
        \A t \in {tools(widgets)[i] : i \in DOMAIN tools(widgets)} :
           t.name = req.name =>
              /\ ~t.inputSchema.additionalProperties
              /\ IF ConformsClosed(t.inputSchema, ArgumentsOf(req))
                 THEN resp.kind = "result"
                 ELSE resp = Threw("ZodError") /\ dbOps = <<>>

\* the table operations that write
WriteOps ==
    {"Consultants.updateEntity", "Assignments.upsertEntity", "Assignments.deleteEntity"}

\* every row of the tables `before` is in the tables `after` as it was
RowsKept(before, after) ==
    \A table \in {"consultants", "projects", "assignments"} :
        \A k \in DOMAIN before[table] :
            k \in DOMAIN after[table] /\ after[table][k] = before[table][k]

\* the forecast and delivered hours of every assignment of `before` are as they were
HoursKept(before, after) ==
    \A k \in DOMAIN before.assignments :
        /\ k \in DOMAIN after.assignments
        /\ after.assignments[k].forecast = before.assignments[k].forecast
        /\ after.assignments[k].delivered = before.assignments[k].delivered

\* C30: a call of a tool annotated readOnly issues no write and leaves the
\* tables as they were; a call of a tool annotated non-destructive leaves
\* every existing row as it was; assign-consultant-to-project and
\* bulk-assign-consultants leave the forecast and delivered hours of every
\* existing assignment as they were.
C30_EffectsMatchAnnotations ==
    [][ (req.kind = "none" /\ req'.kind = "tools/call" /\ resp'.kind # "http")
        => \A ws \in {widgets'}, request \in {req'}, ops \in {dbOps'} :
              \A t \in {tools(ws)[i] : i \in DOMAIN tools(ws)} :
                 t.name = request.name =>
                    /\ t.annotations.readOnlyHint
                          => /\ db' = db
                             /\ \A i \in DOMAIN ops : ops[i] \notin WriteOps
                    /\ ~t.annotations.destructiveHint => RowsKept(db, db')
                    /\ t.name \in {"assign-consultant-to-project",
                                   "bulk-assign-consultants"}
                          => HoursKept(db, db') ]_vars

=============================================================================
